---- MODULE Spec2Model ----
(***************************************************************************)
(* Model of the stream merger of llm-interceptor (src/src/cci/merger.py):  *)
(* StreamMerger.merge groups the capture events of a JSONL log by          *)
(* request_id, classifies every request as streaming, non-streaming or     *)
(* incomplete, extracts text and tool calls, writes one merged record per  *)
(* completed exchange and returns the statistics.                          *)
(*                                                                         *)
(* Representation.  A log record (one JSONL line) is a TLA+ record whose   *)
(* DOMAIN is the set of keys present, so dict.get(key, default) is DGet.   *)
(* The JSON values below a record (content, body, tool input) are tagged:  *)
(* [k |-> "obj", v |-> fields], [k |-> "str", v |-> chars],                *)
(* [k |-> "int", v |-> n], [k |-> "list", v |-> items], [k |-> "null"],    *)
(* which is what isinstance() inspects.  A Python str is a sequence of     *)
(* one-character strings, so "".join is concatenation of sequences.        *)
(***************************************************************************)
EXTENDS Integers, Sequences, FiniteSets, TLC

VARIABLES
    records,         \* the input sink: the event sequence read by read_jsonl
    output,          \* the output sink: the records written by JSONLWriter
                     \* (of RecordSplitter: the files of output_dir, by name)
    pc,              \* position of merge(): "start", "merge", "done" when it
                     \* has returned, "failed" when read_jsonl raised,
                     \* "raised" when an exception left the loops
                     \* (of split(): "split_start", "split", "split_done",
                     \* "split_failed")
    requests,        \* dict request_id -> request record (insertion ordered)
    chunks,          \* defaultdict request_id -> list of chunk records
    metas,           \* dict request_id -> response_meta record
    non_streaming,   \* dict request_id -> response record
    merged_records,  \* list of MergedRecord built so far
    stats,           \* the statistics dict (of merge() or of split())
    rpos,            \* position of the loop over requests.items()
                     \* (of split(): index of the loop over the records)
    now,             \* the wall clock read by datetime.utcnow()
    returned,        \* what the calls of merge() have left with the caller:
                     \* per returned call, the output written and the stats
    request_ids,     \* CCIAddon._request_ids: flow id -> request_id
    request_times,   \* CCIAddon._request_times: flow id -> time of the request
    flows            \* the flows of the proxy: how far each has come ("new",
                     \* "requested", "responded") and what the URL filter
                     \* answers for its URL

vars == <<records, output, pc, requests, chunks, metas, non_streaming,
          merged_records, stats, rpos, now, returned,
          request_ids, request_times, flows>>

\* the state of the proxy addon, which merge() and split() never touch
proxy_vars == <<request_ids, request_times, flows>>

---------------------------------------------------------------------------
(* Bounds of the model. *)

\* longest event sequence of a mixed log (Spec)
MaxLen == 4

\* longest chunk sequence of a tool-call exchange (SpecTools)
MaxChunks == 4

\* longest chunk sequence of a reordered exchange (SpecReorder)
MaxReorder == 3

\* most events after the two requests of a log of odd shapes (SpecBodies)
MaxBodies == 2

\* longest event sequence of a log merged more than once (SpecTwice)
MaxTwice == 3

\* most calls of merge() on one log (SpecTwice)
MaxPasses == 2

\* longest chunk and meta sequence of a streamed exchange (SpecStatus)
MaxStatus == 3

\* longest chunk sequence of a text exchange (SpecText)
MaxText == 3

\* most responses of a non-streaming tool-call exchange (SpecCalls)
MaxCalls == 2

\* longest event sequence of a log with records of other types (SpecSkip)
MaxSkip == 4

\* most lines of a merged file given to the splitter (SpecSplit)
MaxSplit == 3

\* most chunks of an exchange with restarted and text blocks (SpecBlocks)
MaxBlocks == 4

\* most answers of a log with repeated metas and responses (SpecLast)
MaxLast == 5

\* most responses of an exchange with bodies of every type (SpecDispatch)
MaxDispatch == 2

\* most SSE events of a captured streaming response (SpecCapture)
MaxEvents == 3

\* most flows of the proxy (SpecProxy)
MaxFlows == 2

\* most SSE events of a streaming response of the proxy (SpecProxy)
MaxSse == 2

\* most events after the first request of a log with repeated requests and
\* answers to no request (SpecIds)
MaxIds == 4

---------------------------------------------------------------------------
(* JSON values and Python dicts. *)

JStr(s) == [k |-> "str", v |-> s]
JInt(n) == [k |-> "int", v |-> n]
JList(q) == [k |-> "list", v |-> q]
JObj(f) == [k |-> "obj", v |-> f]
JNull == [k |-> "null"]

NoFields == [z \in {} |-> z]
EmptyObj == JObj(NoFields)

IsDict(x) == x.k = "obj"
IsStr(x) == x.k = "str"

\* key in d, d[key] and d.get(key, default) for a JSON object
Has(o, key) == key \in DOMAIN o.v
JGet(o, key, default) == IF key \in DOMAIN o.v THEN o.v[key] ELSE default

\* record.get(key, default) for a log record
DGet(rec, key, default) == IF key \in DOMAIN rec THEN rec[key] ELSE default

\* An insertion-ordered dict keyed by request_id: assigning an existing key
\* keeps its position and replaces its value.
EmptyDict == [keys |-> <<>>, val |-> NoFields]
\* an assignment that appends the key also when it is present
DictSetAppend(d, key, value) ==
    [keys |-> Append(d.keys, key), val |-> (key :> value) @@ d.val]

\* an assignment that leaves the value of a key that is present
DictSetKeepFirst(d, key, value) ==
    [keys |-> IF key \in DOMAIN d.val THEN d.keys ELSE Append(d.keys, key),
     val |-> d.val @@ (key :> value)]

\* an assignment that puts a new key in front of the others
DictSetPrepend(d, key, value) ==
    [keys |-> IF key \in DOMAIN d.val THEN d.keys ELSE <<key>> \o d.keys,
     val |-> (key :> value) @@ d.val]

DictSet(d, key, value) ==
    [keys |-> IF key \in DOMAIN d.val THEN d.keys ELSE Append(d.keys, key),
     val |-> (key :> value) @@ d.val]

RECURSIVE Concat(_)
\* "".join(parts) for a list of strings
Concat(parts) ==
    IF parts = <<>> THEN <<>> ELSE Head(parts) \o Concat(Tail(parts))

\* `for e in x: e.get(...)` raises: x is not iterable, or one of the
\* elements it yields (a list's entries, a string's characters, a dict's
\* keys) is not a dict
GetLoopRaises(x) ==
    \/ x.k \in {"null", "int"}
    \/ x.k = "str" /\ x.v # <<>>
    \/ x.k = "obj" /\ DOMAIN x.v # {}
    \/ x.k = "list" /\ \E n \in 1..Len(x.v) : x.v[n].k # "obj"

\* `if key in x: ... x[key]` (or x.get(key)) raises: x supports no
\* membership test, or it is a string or a list that holds the key (a
\* string of the model holds the key as one element)
KeyReadRaises(x, key) ==
    \/ x.k \in {"null", "int"}
    \/ x.k = "str" /\ \E n \in 1..Len(x.v) : x.v[n] = key
    \/ x.k = "list" /\ \E n \in 1..Len(x.v) : x.v[n] = JStr(<<key>>)

\* "".join(parts) raises: a part is not a string
JoinRaises(parts) == \E n \in 1..Len(parts) : parts[n].k # "str"

---------------------------------------------------------------------------
(* json.loads on the strings of the model.  The characters of a            *)
(* partial_json fragment are "[", "]" and "1"; on that alphabet the JSON    *)
(* grammar is  value ::= "1"+ | "[" "]" | "[" value "]".                    *)

RECURSIVE Ones(_)
\* the integer written as n digits "1"
Ones(n) == IF n = 0 THEN 0 ELSE 10 * Ones(n - 1) + 1

RECURSIVE DigitsEnd(_, _)
\* first position at or after i that holds no digit
DigitsEnd(s, i) ==
    IF i <= Len(s) /\ s[i] = "1" THEN DigitsEnd(s, i + 1) ELSE i

ParseFail(i) == [ok |-> FALSE, val |-> JNull, next |-> i]

RECURSIVE ParseValue(_, _)
\* the JSON value that starts at position i of s, and where it ends
ParseValue(s, i) ==
    IF i > Len(s) THEN ParseFail(i)
    ELSE IF s[i] = "1" THEN
        LET j == DigitsEnd(s, i)
        IN [ok |-> TRUE, val |-> JInt(Ones(j - i)), next |-> j]
    ELSE IF s[i] = "[" THEN
        IF i + 1 <= Len(s) /\ s[i + 1] = "]"
        THEN [ok |-> TRUE, val |-> JList(<<>>), next |-> i + 2]
        ELSE LET r == ParseValue(s, i + 1)
             IN IF r.ok /\ r.next <= Len(s) /\ s[r.next] = "]"
                THEN [ok |-> TRUE, val |-> JList(<<r.val>>), next |-> r.next + 1]
                ELSE ParseFail(i)
    ELSE ParseFail(i)

\* json.loads(s): ok is FALSE where it raises JSONDecodeError
JsonLoads(s) ==
    LET r == ParseValue(s, 1)
    IN IF r.ok /\ r.next = Len(s) + 1
       THEN [ok |-> TRUE, val |-> r.val]
       ELSE [ok |-> FALSE, val |-> JNull]

\* bool(x) of a JSON value
Truthy(x) ==
    CASE x.k = "null" -> FALSE
      [] x.k = "str" -> x.v # <<>>
      [] x.k = "list" -> x.v # <<>>
      [] x.k = "int" -> x.v # 0
      [] x.k = "obj" -> DOMAIN x.v # {}

---------------------------------------------------------------------------
(* StreamMerger._extract_text_from_chunks *)

RECURSIVE ChoiceTextParts(_)
\* the loop over content["choices"]: each choice's delta content (for a
\* delta that is no dict the membership test is false, or the read raises)
ChoiceTextParts(choices) ==
    IF choices = <<>> THEN <<>>
    ELSE LET delta == JGet(Head(choices), "delta", EmptyObj)
         IN (IF IsDict(delta) /\ Has(delta, "content") THEN <<delta.v.content>> ELSE <<>>)
            \o ChoiceTextParts(Tail(choices))

\* a chunk read with an elif chain: the first marker that matches is the
\* only one that contributes
ChunkTextPartsFirstMarker(chunk) ==
    LET content == DGet(chunk, "content", EmptyObj)
    IN IF IsDict(content) THEN
           IF Has(content, "delta") /\ IsDict(content.v.delta)
              /\ Has(content.v.delta, "text")
           THEN <<content.v.delta.v.text>>
           ELSE IF Has(content, "choices")
           THEN ChoiceTextParts(content.v.choices.v)
           ELSE IF Has(content, "text") THEN <<content.v.text>>
           ELSE IF Has(content, "content_block") /\ IsDict(content.v.content_block)
                   /\ Has(content.v.content_block, "text")
           THEN <<content.v.content_block.v.text>>
           ELSE <<>>
       ELSE IF IsStr(content) THEN <<content>>
       ELSE <<>>

\* what one chunk appends to text_parts
ChunkTextParts(chunk) ==
    LET content == DGet(chunk, "content", EmptyObj)
    IN IF IsDict(content) THEN
           (IF Has(content, "delta") /\ IsDict(content.v.delta)
               /\ Has(content.v.delta, "text")
            THEN <<content.v.delta.v.text>> ELSE <<>>)
           \o (IF Has(content, "choices")
               THEN ChoiceTextParts(content.v.choices.v) ELSE <<>>)
           \o (IF Has(content, "text") THEN <<content.v.text>> ELSE <<>>)
           \o (IF Has(content, "content_block") /\ IsDict(content.v.content_block)
                  /\ Has(content.v.content_block, "text")
               THEN <<content.v.content_block.v.text>> ELSE <<>>)
       ELSE IF IsStr(content) THEN <<content>>
       ELSE <<>>

RECURSIVE TextParts(_)
TextParts(cs) ==
    IF cs = <<>> THEN <<>> ELSE ChunkTextParts(Head(cs)) \o TextParts(Tail(cs))

ExtractTextFromChunks(cs) ==
    LET parts == TextParts(cs)
    IN Concat([n \in 1..Len(parts) |-> parts[n].v])

\* the loop over content["choices"] raises
ChoicesTextRaise(choices) ==
    \/ GetLoopRaises(choices)
    \/ /\ choices.k = "list"
       /\ \E n \in 1..Len(choices.v) :
              KeyReadRaises(JGet(choices.v[n], "delta", EmptyObj), "content")

\* where _extract_text_from_chunks raises instead of returning
TextFromChunksRaises(cs) ==
    \/ \E n \in 1..Len(cs) :
           LET content == DGet(cs[n], "content", EmptyObj)
           IN /\ IsDict(content)
              /\ Has(content, "choices")
              /\ ChoicesTextRaise(content.v.choices)
    \/ JoinRaises(TextParts(cs))

---------------------------------------------------------------------------
(* StreamMerger._extract_tool_calls_from_chunks *)

\* tool_call_data and tool_input_parts before the loop
NoToolState == [data |-> NoFields, parts |-> NoFields]

\* a loop body that registers the block of every content_block_start,
\* whatever its type
ToolStepAnyBlock(st, chunk) ==
    LET content == DGet(chunk, "content", EmptyObj)
        content_type == JGet(content, "type", JStr(<<>>))
        index == JGet(content, "index", JNull)
    IN IF ~IsDict(content) THEN st
       ELSE IF content_type = JStr(<<"content_block_start">>) THEN
           LET block == JGet(content, "content_block", EmptyObj)
           IN IF IsDict(block)
              THEN [st EXCEPT !.data =
                       (index :> [id |-> JGet(block, "id", JStr(<<>>)),
                                  name |-> JGet(block, "name", JStr(<<>>))]) @@ @]
              ELSE st
       ELSE IF content_type = JStr(<<"content_block_delta">>) THEN
           LET delta == JGet(content, "delta", EmptyObj)
           IN IF IsDict(delta)
                 /\ JGet(delta, "type", JNull) = JStr(<<"input_json_delta">>)
              THEN LET partial_json == JGet(delta, "partial_json", JStr(<<>>))
                   IN IF Truthy(partial_json) /\ index # JNull
                      THEN [st EXCEPT !.parts =
                               (index :> Append(DGet(@, index, <<>>), partial_json)) @@ @]
                      ELSE st
              ELSE st
       ELSE st

\* the body of the loop over the chunks: a tool_use Start registers the
\* block's id and name under its index, an input_json_delta appends its
\* fragment to tool_input_parts[index]
ToolStep(st, chunk) ==
    LET content == DGet(chunk, "content", EmptyObj)
        content_type == JGet(content, "type", JStr(<<>>))
        index == JGet(content, "index", JNull)
    IN IF ~IsDict(content) THEN st
       ELSE IF content_type = JStr(<<"content_block_start">>) THEN
           LET block == JGet(content, "content_block", EmptyObj)
           IN IF IsDict(block) /\ JGet(block, "type", JNull) = JStr(<<"tool_use">>)
              THEN [st EXCEPT !.data =
                       (index :> [id |-> JGet(block, "id", JStr(<<>>)),
                                  name |-> JGet(block, "name", JStr(<<>>))]) @@ @]
              ELSE st
       ELSE IF content_type = JStr(<<"content_block_delta">>) THEN
           LET delta == JGet(content, "delta", EmptyObj)
           IN IF IsDict(delta)
                 /\ JGet(delta, "type", JNull) = JStr(<<"input_json_delta">>)
              THEN LET partial_json == JGet(delta, "partial_json", JStr(<<>>))
                   IN IF Truthy(partial_json) /\ index # JNull
                      THEN [st EXCEPT !.parts =
                               (index :> Append(DGet(@, index, <<>>), partial_json)) @@ @]
                      ELSE st
              ELSE st
       ELSE st

RECURSIVE ToolScan(_, _)
\* the loop over the chunks, from state st
ToolScan(st, cs) ==
    IF cs = <<>> THEN st ELSE ToolScan(ToolStep(st, Head(cs)), Tail(cs))

RECURSIVE SortedIndicesDescending(_)
\* the keys of tool_call_data from the greatest down
SortedIndicesDescending(S) ==
    IF S = {} THEN <<>>
    ELSE LET m == CHOOSE a \in S : \A b \in S : a.v >= b.v
         IN <<m>> \o SortedIndicesDescending(S \ {m})

RECURSIVE SortedIndices(_)
\* the keys of tool_call_data in the order of sorted(): ascending
SortedIndices(S) ==
    IF S = {} THEN <<>>
    ELSE LET m == CHOOSE a \in S : \A b \in S \ {a} : a.v <= b.v
         IN <<m>> \o SortedIndices(S \ {m})

\* an input that is dropped when it does not parse
ToolInputDropsInvalid(fragments) ==
    LET full_json_str == Concat([n \in 1..Len(fragments) |-> fragments[n].v])
        parsed == JsonLoads(full_json_str)
    IN IF full_json_str # <<>> /\ parsed.ok THEN parsed.val ELSE JNull

\* an input built from the last fragment alone
ToolInputLastFragment(fragments) ==
    LET full_json_str == IF fragments = <<>> THEN <<>> ELSE fragments[Len(fragments)].v
        parsed == JsonLoads(full_json_str)
    IN IF full_json_str = <<>> THEN JNull
       ELSE IF parsed.ok THEN parsed.val
       ELSE JStr(full_json_str)

\* the input of one finished tool call: None without fragments, the parsed
\* value when the joined fragments parse, the joined string otherwise
ToolInput(fragments) ==
    LET full_json_str == Concat([n \in 1..Len(fragments) |-> fragments[n].v])
        parsed == JsonLoads(full_json_str)
    IN IF full_json_str = <<>> THEN JNull
       ELSE IF parsed.ok THEN parsed.val
       ELSE JStr(full_json_str)

\* the final loop: one ToolCall per registered index
BuildToolCalls(st) ==
    LET order == SortedIndices(DOMAIN st.data)
    IN [n \in 1..Len(order) |->
           [id |-> st.data[order[n]].id,
            name |-> st.data[order[n]].name,
            input |-> ToolInput(DGet(st.parts, order[n], <<>>))]]

ExtractToolCallsFromChunks(cs) == BuildToolCalls(ToolScan(NoToolState, cs))

\* the chunk uses its index as a dict key: a tool_use Start, or an
\* input_json_delta with a fragment and an index
UsesIndexAsKey(chunk) ==
    LET content == DGet(chunk, "content", EmptyObj)
        content_type == JGet(content, "type", JStr(<<>>))
        index == JGet(content, "index", JNull)
    IN /\ IsDict(content)
       /\ \/ /\ content_type = JStr(<<"content_block_start">>)
             /\ LET block == JGet(content, "content_block", EmptyObj)
                IN IsDict(block) /\ JGet(block, "type", JNull) = JStr(<<"tool_use">>)
          \/ /\ content_type = JStr(<<"content_block_delta">>)
             /\ LET delta == JGet(content, "delta", EmptyObj)
                IN /\ IsDict(delta)
                   /\ JGet(delta, "type", JNull) = JStr(<<"input_json_delta">>)
                   /\ Truthy(JGet(delta, "partial_json", JStr(<<>>)))
                   /\ index # JNull

\* where _extract_tool_calls_from_chunks raises instead of returning: an
\* unhashable index used as a key, registered indices that sorted() cannot
\* compare (None with an integer), or a fragment of a registered index that
\* is not a string
ToolCallsFromChunksRaises(cs) ==
    \/ \E n \in 1..Len(cs) :
           /\ UsesIndexAsKey(cs[n])
           /\ JGet(cs[n].content, "index", JNull).k \in {"list", "obj"}
    \/ LET st == ToolScan(NoToolState, cs)
       IN \/ \E a, b \in DOMAIN st.data : a.k # b.k
          \/ \E index \in DOMAIN st.data : JoinRaises(DGet(st.parts, index, <<>>))

---------------------------------------------------------------------------
(* json.dumps, as far as the model's values need it: integers, strings     *)
(* without characters to escape, null, lists and objects (separators       *)
(* ", " and ": ").  An object's keys are written in one fixed order; the   *)
(* model's objects carry no insertion order.                               *)

DigitChars == <<"0", "1", "2", "3", "4", "5", "6", "7", "8", "9">>

RECURSIVE NatDigits(_)
NatDigits(n) ==
    IF n < 10 THEN <<DigitChars[n + 1]>>
    ELSE NatDigits(n \div 10) \o <<DigitChars[(n % 10) + 1]>>

RECURSIVE JsonDumps(_)
RECURSIVE DumpItems(_)
RECURSIVE DumpFields(_, _)

DumpItems(q) ==
    IF q = <<>> THEN <<>>
    ELSE JsonDumps(Head(q))
         \o (IF Tail(q) = <<>> THEN <<>> ELSE <<",", " ">> \o DumpItems(Tail(q)))

DumpFields(f, keys) ==
    IF keys = {} THEN <<>>
    ELSE LET key == CHOOSE a \in keys : TRUE
             rest == keys \ {key}
         IN <<"\"", key, "\"", ":", " ">> \o JsonDumps(f[key])
            \o (IF rest = {} THEN <<>> ELSE <<",", " ">> \o DumpFields(f, rest))

JsonDumps(x) ==
    CASE x.k = "null" -> <<"n", "u", "l", "l">>
      [] x.k = "int" -> IF x.v < 0 THEN <<"-">> \o NatDigits(-x.v) ELSE NatDigits(x.v)
      [] x.k = "str" -> <<"\"">> \o x.v \o <<"\"">>
      [] x.k = "list" -> <<"[">> \o DumpItems(x.v) \o <<"]">>
      [] x.k = "obj" -> <<"{">> \o DumpFields(x.v, DOMAIN x.v) \o <<"}">>

---------------------------------------------------------------------------
(* StreamMerger._extract_text_from_body and _extract_tool_calls_from_body *)

RECURSIVE ItemTexts(_)
\* the "text" of every entry of a content list that is a dict and has one
ItemTexts(items) ==
    IF items = <<>> THEN <<>>
    ELSE (IF IsDict(Head(items)) /\ Has(Head(items), "text")
          THEN <<Head(items).v.text>> ELSE <<>>)
         \o ItemTexts(Tail(items))

RECURSIVE MessageTexts(_)
\* the message content of every choice that has one (for a message that
\* is no dict the membership test is false, or the read raises)
MessageTexts(choices) ==
    IF choices = <<>> THEN <<>>
    ELSE LET message == JGet(Head(choices), "message", EmptyObj)
         IN (IF IsDict(message) /\ Has(message, "content")
             THEN <<message.v.content>> ELSE <<>>)
            \o MessageTexts(Tail(choices))

JoinTexts(parts) == Concat([n \in 1..Len(parts) |-> parts[n].v])

\* an extraction that looks at "choices" before "content"
ExtractTextFromBodyChoicesFirst(body) ==
    IF Has(body, "choices")
    THEN JoinTexts(MessageTexts(body.v.choices.v))
    ELSE IF Has(body, "content") /\ body.v.content.k = "list"
    THEN JoinTexts(ItemTexts(body.v.content.v))
    ELSE IF Has(body, "content") /\ IsStr(body.v.content)
    THEN body.v.content.v
    ELSE JsonDumps(body)

ExtractTextFromBody(body) ==
    IF Has(body, "content") /\ body.v.content.k = "list"
    THEN JoinTexts(ItemTexts(body.v.content.v))
    ELSE IF Has(body, "content") /\ IsStr(body.v.content)
    THEN body.v.content.v
    ELSE IF Has(body, "choices")
    THEN JoinTexts(MessageTexts(body.v.choices.v))
    ELSE JsonDumps(body)

RECURSIVE ItemToolCalls(_)
\* one ToolCall per content entry of type tool_use
ItemToolCalls(items) ==
    IF items = <<>> THEN <<>>
    ELSE (IF IsDict(Head(items)) /\ JGet(Head(items), "type", JNull) = JStr(<<"tool_use">>)
          THEN <<[id |-> JGet(Head(items), "id", JStr(<<>>)),
                  name |-> JGet(Head(items), "name", JStr(<<>>)),
                  input |-> JGet(Head(items), "input", JNull)]>>
          ELSE <<>>)
         \o ItemToolCalls(Tail(items))

\* tool calls whose arguments string is parsed when it is valid JSON
FunctionToolCallsParsed(tcs) ==
    [n \in 1..Len(tcs) |->
        LET arguments == JGet(JGet(tcs[n], "function", EmptyObj), "arguments", JNull)
        IN [id |-> JGet(tcs[n], "id", JStr(<<>>)),
            name |-> JGet(JGet(tcs[n], "function", EmptyObj), "name", JStr(<<>>)),
            input |-> IF IsStr(arguments) /\ JsonLoads(arguments.v).ok
                      THEN JsonLoads(arguments.v).val ELSE arguments]]

\* one ToolCall per entry of a message's tool_calls
FunctionToolCalls(tcs) ==
    [n \in 1..Len(tcs) |->
        [id |-> JGet(tcs[n], "id", JStr(<<>>)),
         name |-> JGet(JGet(tcs[n], "function", EmptyObj), "name", JStr(<<>>)),
         input |-> JGet(JGet(tcs[n], "function", EmptyObj), "arguments", JNull)]]

RECURSIVE MessageToolCalls(_)
MessageToolCalls(choices) ==
    IF choices = <<>> THEN <<>>
    ELSE LET message == JGet(Head(choices), "message", EmptyObj)
         IN (IF IsDict(message) /\ Has(message, "tool_calls")
             THEN FunctionToolCalls(message.v.tool_calls.v) ELSE <<>>)
            \o MessageToolCalls(Tail(choices))

ExtractToolCallsFromBody(body) ==
    (IF Has(body, "content") /\ body.v.content.k = "list"
     THEN ItemToolCalls(body.v.content.v) ELSE <<>>)
    \o (IF Has(body, "choices") THEN MessageToolCalls(body.v.choices.v) ELSE <<>>)

\* the loop over body["choices"] raises when it looks for key in each
\* choice's message
MessagesRaise(choices, key) ==
    \/ GetLoopRaises(choices)
    \/ /\ choices.k = "list"
       /\ \E n \in 1..Len(choices.v) :
              KeyReadRaises(JGet(choices.v[n], "message", EmptyObj), key)

\* where _extract_text_from_body raises instead of returning
TextFromBodyRaises(body) ==
    IF Has(body, "content") /\ body.v.content.k = "list"
    THEN JoinRaises(ItemTexts(body.v.content.v))
    ELSE IF Has(body, "content") /\ IsStr(body.v.content)
    THEN FALSE
    ELSE IF Has(body, "choices")
    THEN MessagesRaise(body.v.choices, "content")
         \/ JoinRaises(MessageTexts(body.v.choices.v))
    ELSE FALSE

\* the loop over a message's tool_calls raises: an entry, or its "function",
\* is not a dict
ToolCallListRaises(tcs) ==
    \/ GetLoopRaises(tcs)
    \/ /\ tcs.k = "list"
       /\ \E n \in 1..Len(tcs.v) :
              Has(tcs.v[n], "function") /\ tcs.v[n].v.function.k # "obj"

\* where _extract_tool_calls_from_body raises instead of returning
ToolCallsFromBodyRaises(body) ==
    /\ Has(body, "choices")
    /\ \/ MessagesRaise(body.v.choices, "tool_calls")
       \/ \E n \in 1..Len(body.v.choices.v) :
              LET message == JGet(body.v.choices.v[n], "message", EmptyObj)
              IN /\ IsDict(message)
                 /\ Has(message, "tool_calls")
                 /\ ToolCallListRaises(message.v.tool_calls)

---------------------------------------------------------------------------
(* StreamMerger.merge: grouping *)

\* requests, chunks, metas and non_streaming before the first loop
NoGroups ==
    [requests |-> EmptyDict, chunks |-> NoFields, metas |-> NoFields,
     non_streaming |-> NoFields]

\* a loop body that files a chunk under the request seen last in the log
GroupStepLastRequest(g, record) ==
    LET record_type == DGet(record, "type", "")
        request_id == DGet(record, "request_id", "")
        current == IF g.requests.keys = <<>> THEN request_id
                   ELSE g.requests.keys[Len(g.requests.keys)]
    IN IF record_type = "request"
       THEN [g EXCEPT !.requests = DictSet(@, record.id, record)]
       ELSE IF record_type = "response_chunk"
       THEN IF request_id # ""
            THEN [g EXCEPT !.chunks =
                     (current :> Append(DGet(@, current, <<>>), record)) @@ @]
            ELSE g
       ELSE IF record_type = "response_meta"
       THEN IF request_id # ""
            THEN [g EXCEPT !.metas = (request_id :> record) @@ @]
            ELSE g
       ELSE IF record_type = "response"
       THEN IF request_id # ""
            THEN [g EXCEPT !.non_streaming = (request_id :> record) @@ @]
            ELSE g
       ELSE g

\* a loop body that keeps the first meta and the first response of an id
GroupStepFirstWins(g, record) ==
    LET record_type == DGet(record, "type", "")
        request_id == DGet(record, "request_id", "")
    IN IF record_type = "request"
       THEN [g EXCEPT !.requests = DictSet(@, record.id, record)]
       ELSE IF record_type = "response_chunk"
       THEN IF request_id # ""
            THEN [g EXCEPT !.chunks =
                     (request_id :> Append(DGet(@, request_id, <<>>), record)) @@ @]
            ELSE g
       ELSE IF record_type = "response_meta"
       THEN IF request_id # ""
            THEN [g EXCEPT !.metas = @ @@ (request_id :> record)]
            ELSE g
       ELSE IF record_type = "response"
       THEN IF request_id # ""
            THEN [g EXCEPT !.non_streaming = @ @@ (request_id :> record)]
            ELSE g
       ELSE g

\* a loop body whose last branch is an else: a record of any other type
\* is filed as a non-streaming response
GroupStepElseResponse(g, record) ==
    LET record_type == DGet(record, "type", "")
        request_id == DGet(record, "request_id", "")
    IN IF record_type = "request"
       THEN [g EXCEPT !.requests = DictSet(@, record.id, record)]
       ELSE IF record_type = "response_chunk"
       THEN IF request_id # ""
            THEN [g EXCEPT !.chunks =
                     (request_id :> Append(DGet(@, request_id, <<>>), record)) @@ @]
            ELSE g
       ELSE IF record_type = "response_meta"
       THEN IF request_id # ""
            THEN [g EXCEPT !.metas = (request_id :> record) @@ @]
            ELSE g
       ELSE IF request_id # ""
            THEN [g EXCEPT !.non_streaming = (request_id :> record) @@ @]
            ELSE g

\* The body of the loop over the records.  record.get("request_id") is
\* modelled with default "": None and "" both fail `if request_id:`.
GroupStep(g, record) ==
    LET record_type == DGet(record, "type", "")
        request_id == DGet(record, "request_id", "")
    IN IF record_type = "request"
       THEN [g EXCEPT !.requests = DictSet(@, record.id, record)]
       ELSE IF record_type = "response_chunk"
       THEN IF request_id # ""
            THEN [g EXCEPT !.chunks =
                     (request_id :> Append(DGet(@, request_id, <<>>), record)) @@ @]
            ELSE g
       ELSE IF record_type = "response_meta"
       THEN IF request_id # ""
            THEN [g EXCEPT !.metas = (request_id :> record) @@ @]
            ELSE g
       ELSE IF record_type = "response"
       THEN IF request_id # ""
            THEN [g EXCEPT !.non_streaming = (request_id :> record) @@ @]
            ELSE g
       ELSE g

RECURSIVE GroupScan(_, _)
\* the loop over the records, from grouping g
GroupScan(g, recs) ==
    IF recs = <<>> THEN g ELSE GroupScan(GroupStep(g, Head(recs)), Tail(recs))

\* where the grouping loop raises: record["id"] of a request event that
\* has no id
GroupRaises(recs) ==
    \E n \in 1..Len(recs) :
        DGet(recs[n], "type", "") = "request" /\ "id" \notin DOMAIN recs[n]

\* total_requests counting every id the log mentions
InitStatsAllIds(g) ==
    [total_requests |->
         Cardinality(DOMAIN g.requests.val \cup DOMAIN g.chunks
                     \cup DOMAIN g.metas \cup DOMAIN g.non_streaming),
     streaming_requests |-> 0,
     non_streaming_requests |-> 0,
     incomplete_requests |-> 0,
     total_chunks_processed |-> 0]

\* stats that start with the chunks filed under ids without request
InitStatsCountsOrphans(g) ==
    [total_requests |-> Len(g.requests.keys),
     streaming_requests |-> 0,
     non_streaming_requests |-> 0,
     incomplete_requests |-> 0,
     total_chunks_processed |->
         Cardinality(UNION {{<<id, n>> : n \in 1..Len(g.chunks[id])} :
                               id \in DOMAIN g.chunks \ DOMAIN g.requests.val})]

\* stats as initialised after grouping
InitStats(g) ==
    [total_requests |-> Len(g.requests.keys),
     streaming_requests |-> 0,
     non_streaming_requests |-> 0,
     incomplete_requests |-> 0,
     total_chunks_processed |-> 0]

---------------------------------------------------------------------------
(* StreamMerger._parse_timestamp.  A datetime is a record: iso holds the    *)
(* string it was parsed from, clock the reading of the wall clock when it   *)
(* was made by utcnow() (0 for a parsed one).  The timestamp of a log       *)
(* record comes from JSON, so it is never a datetime object.                *)

\* the strings of the model that datetime.fromisoformat accepts
IsoStrings == {<<"2024-01-01T00:00:00">>, <<"2024-01-02T00:00:00">>}

RECURSIVE RStripZ(_)
\* ts.rstrip("Z")
RStripZ(ts) ==
    IF ts # <<>> /\ ts[Len(ts)] = "Z" THEN RStripZ(SubSeq(ts, 1, Len(ts) - 1)) ELSE ts

ParseTimestamp(ts) ==
    IF IsStr(ts) /\ RStripZ(ts.v) \in IsoStrings
    THEN [iso |-> RStripZ(ts.v), clock |-> 0]
    ELSE [iso |-> <<>>, clock |-> now]

---------------------------------------------------------------------------
(* StreamMerger.merge: one request *)

ChunkKey(c) == DGet(c, "chunk_index", 0)

RECURSIVE InsertBeforeEqual(_, _)
\* c placed before every element whose key is not smaller than its own
InsertBeforeEqual(sorted, c) ==
    IF sorted = <<>> THEN <<c>>
    ELSE IF ChunkKey(Head(sorted)) < ChunkKey(c)
    THEN <<Head(sorted)>> \o InsertBeforeEqual(Tail(sorted), c)
    ELSE <<c>> \o sorted

RECURSIVE InsertByKey(_, _)
\* c placed behind every element whose key is not greater than its own
InsertByKey(sorted, c) ==
    IF sorted = <<>> THEN <<c>>
    ELSE IF ChunkKey(Head(sorted)) <= ChunkKey(c)
    THEN <<Head(sorted)>> \o InsertByKey(Tail(sorted), c)
    ELSE <<c>> \o sorted

RECURSIVE SortFrom(_, _)
SortFrom(sorted, cs) ==
    IF cs = <<>> THEN sorted ELSE SortFrom(InsertByKey(sorted, Head(cs)), Tail(cs))

RECURSIVE UniqueFrom(_, _)
UniqueFrom(kept, cs) ==
    IF cs = <<>> THEN kept
    ELSE IF \E n \in 1..Len(kept) : ChunkKey(kept[n]) = ChunkKey(Head(cs))
    THEN UniqueFrom(kept, Tail(cs))
    ELSE UniqueFrom(Append(kept, Head(cs)), Tail(cs))

\* a sort that keeps one chunk per chunk_index
SortChunksUnique(cs) == SortFrom(<<>>, UniqueFrom(<<>>, cs))

\* the chunks left in arrival order
SortChunksArrival(cs) == cs

\* sorted(chunks, key=chunk_index): ascending and stable
SortChunks(cs) == SortFrom(<<>>, cs)

\* the two membership tests in the other order
ClassifyResponseFirst(g, request_id) ==
    IF request_id \in DOMAIN g.non_streaming THEN "non_streaming"
    ELSE IF request_id \in DOMAIN g.chunks THEN "streaming"
    ELSE "incomplete"

\* which branch the loop body takes for request_id
Classify(g, request_id) ==
    IF request_id \in DOMAIN g.chunks THEN "streaming"
    ELSE IF request_id \in DOMAIN g.non_streaming THEN "non_streaming"
    ELSE "incomplete"

\* a streaming record whose chunk_count is the chunk_index of its last chunk
StreamingRecordCountsIndex(g, request_id) ==
    LET request == g.requests.val[request_id]
        request_chunks == SortChunks(g.chunks[request_id])
        meta == DGet(g.metas, request_id, NoFields)
    IN [request_id |-> request_id,
        timestamp |-> ParseTimestamp(DGet(request, "timestamp", JNull)),
        method |-> DGet(request, "method", <<>>),
        url |-> DGet(request, "url", <<>>),
        request_body |-> DGet(request, "body", JNull),
        response_status |->
            IF request_chunks # <<>>
            THEN DGet(meta, "status_code", DGet(request_chunks[1], "status_code", 0))
            ELSE 0,
        response_text |-> ExtractTextFromChunks(request_chunks),
        tool_calls |-> ExtractToolCallsFromChunks(request_chunks),
        total_latency_ms |-> DGet(meta, "total_latency_ms", 0),
        chunk_count |-> ChunkKey(request_chunks[Len(request_chunks)])]

\* a streaming record that takes its status from the first chunk also when
\* there is a meta
StreamingRecordChunkStatus(g, request_id) ==
    LET request == g.requests.val[request_id]
        request_chunks == SortChunks(g.chunks[request_id])
        meta == DGet(g.metas, request_id, NoFields)
    IN [request_id |-> request_id,
        timestamp |-> ParseTimestamp(DGet(request, "timestamp", JNull)),
        method |-> DGet(request, "method", <<>>),
        url |-> DGet(request, "url", <<>>),
        request_body |-> DGet(request, "body", JNull),
        response_status |->
            IF request_chunks # <<>>
            THEN DGet(request_chunks[1], "status_code", DGet(meta, "status_code", 0))
            ELSE 0,
        response_text |-> ExtractTextFromChunks(request_chunks),
        tool_calls |-> ExtractToolCallsFromChunks(request_chunks),
        total_latency_ms |-> DGet(meta, "total_latency_ms", 0),
        chunk_count |-> Len(request_chunks)]

\* the MergedRecord of the streaming branch
StreamingRecord(g, request_id) ==
    LET request == g.requests.val[request_id]
        request_chunks == SortChunks(g.chunks[request_id])
        meta == DGet(g.metas, request_id, NoFields)
    IN [request_id |-> request_id,
        timestamp |-> ParseTimestamp(DGet(request, "timestamp", JNull)),
        method |-> DGet(request, "method", <<>>),
        url |-> DGet(request, "url", <<>>),
        request_body |-> DGet(request, "body", JNull),
        response_status |->
            IF request_chunks # <<>>
            THEN DGet(meta, "status_code", DGet(request_chunks[1], "status_code", 0))
            ELSE 0,
        response_text |-> ExtractTextFromChunks(request_chunks),
        tool_calls |-> ExtractToolCallsFromChunks(request_chunks),
        total_latency_ms |-> DGet(meta, "total_latency_ms", 0),
        chunk_count |-> Len(request_chunks)]

\* the MergedRecord of the non-streaming branch
NonStreamingRecord(g, request_id) ==
    LET request == g.requests.val[request_id]
        response == g.non_streaming[request_id]
        body == DGet(response, "body", JNull)
    IN [request_id |-> request_id,
        timestamp |-> ParseTimestamp(DGet(request, "timestamp", JNull)),
        method |-> DGet(request, "method", <<>>),
        url |-> DGet(request, "url", <<>>),
        request_body |-> DGet(request, "body", JNull),
        response_status |-> DGet(response, "status_code", 0),
        response_text |->
            IF IsDict(body) THEN ExtractTextFromBody(body)
            ELSE IF IsStr(body) THEN body.v
            ELSE IF Truthy(body) THEN JsonDumps(body) ELSE <<>>,
        tool_calls |-> IF IsDict(body) THEN ExtractToolCallsFromBody(body) ELSE <<>>,
        total_latency_ms |-> DGet(response, "latency_ms", 0),
        chunk_count |-> 0]

\* where the loop body raises for request_id: one of the extractors of
\* its branch does
RequestRaises(g, request_id) ==
    LET branch == Classify(g, request_id)
    IN IF branch = "streaming" THEN
           LET request_chunks == SortChunks(g.chunks[request_id])
           IN TextFromChunksRaises(request_chunks)
              \/ ToolCallsFromChunksRaises(request_chunks)
       ELSE IF branch = "non_streaming" THEN
           LET body == DGet(g.non_streaming[request_id], "body", JNull)
           IN IsDict(body) /\ (TextFromBodyRaises(body) \/ ToolCallsFromBodyRaises(body))
       ELSE FALSE

\* a loop body whose last branch sets incomplete_requests instead of adding
MergeStepSetsIncomplete(m, g, request_id) ==
    LET branch == Classify(g, request_id)
    IN IF branch = "streaming" THEN
           LET merged == StreamingRecord(g, request_id)
           IN [merged_records |-> Append(m.merged_records, merged),
               stats |-> [m.stats EXCEPT
                   !.streaming_requests = @ + 1,
                   !.total_chunks_processed = @ + merged.chunk_count]]
       ELSE IF branch = "non_streaming" THEN
           [merged_records |-> Append(m.merged_records, NonStreamingRecord(g, request_id)),
            stats |-> [m.stats EXCEPT !.non_streaming_requests = @ + 1]]
       ELSE
           [merged_records |-> m.merged_records,
            stats |-> [m.stats EXCEPT !.incomplete_requests = 1]]

\* a loop body that leaves out, as incomplete, a request whose timestamp
\* does not parse
MergeStepNeedsTimestamp(m, g, request_id) ==
    LET branch == Classify(g, request_id)
        parsed == ParseTimestamp(DGet(g.requests.val[request_id], "timestamp", JNull))
    IN IF parsed.iso # <<>> /\ branch = "streaming" THEN
           LET merged == StreamingRecord(g, request_id)
           IN [merged_records |-> Append(m.merged_records, merged),
               stats |-> [m.stats EXCEPT
                   !.streaming_requests = @ + 1,
                   !.total_chunks_processed = @ + merged.chunk_count]]
       ELSE IF parsed.iso # <<>> /\ branch = "non_streaming" THEN
           [merged_records |-> Append(m.merged_records, NonStreamingRecord(g, request_id)),
            stats |-> [m.stats EXCEPT !.non_streaming_requests = @ + 1]]
       ELSE
           [merged_records |-> m.merged_records,
            stats |-> [m.stats EXCEPT !.incomplete_requests = @ + 1]]

\* The body of the loop over requests.items(): m holds merged_records and
\* stats, g the grouping.
MergeStep(m, g, request_id) ==
    LET branch == Classify(g, request_id)
    IN IF branch = "streaming" THEN
           LET merged == StreamingRecord(g, request_id)
           IN [merged_records |-> Append(m.merged_records, merged),
               stats |-> [m.stats EXCEPT
                   !.streaming_requests = @ + 1,
                   !.total_chunks_processed = @ + merged.chunk_count]]
       ELSE IF branch = "non_streaming" THEN
           [merged_records |-> Append(m.merged_records, NonStreamingRecord(g, request_id)),
            stats |-> [m.stats EXCEPT !.non_streaming_requests = @ + 1]]
       ELSE
           [merged_records |-> m.merged_records,
            stats |-> [m.stats EXCEPT !.incomplete_requests = @ + 1]]

RECURSIVE MergeLoop(_, _, _)
\* the loop over requests.items(), for the ids still to visit
MergeLoop(m, g, ids) ==
    IF ids = <<>> THEN m ELSE MergeLoop(MergeStep(m, g, Head(ids)), g, Tail(ids))

\* merge() as a function of the input: the records written and the stats
MergeResult(recs) ==
    LET g == GroupScan(NoGroups, recs)
    IN MergeLoop([merged_records |-> <<>>, stats |-> InitStats(g)], g, g.requests.keys)

---------------------------------------------------------------------------
(* The log records the capture layer writes (the record shapes of           *)
(* proxy.py's writes, as merge() reads them back).                          *)

Request(id) == [type |-> "request", id |-> id]

Chunk(id, idx, status, content) ==
    [type |-> "response_chunk", request_id |-> id, chunk_index |-> idx,
     status_code |-> status, content |-> content]

Meta(id, status, latency) ==
    [type |-> "response_meta", request_id |-> id, status_code |-> status,
     total_latency_ms |-> latency]

Response(id, status, body, latency) ==
    [type |-> "response", request_id |-> id, status_code |-> status,
     body |-> body, latency_ms |-> latency]

\* a response hook that numbers the chunks from 1
StreamingResponseRecordsFromOne(request_id, status_code, sse_events, latency_ms) ==
    [n \in 1..Len(sse_events) |->
        Chunk(request_id, n, status_code, sse_events[n])]
    \o <<[type |-> "response_meta", request_id |-> request_id,
          status_code |-> status_code, total_latency_ms |-> latency_ms,
          total_chunks |-> Len(sse_events)]>>

\* a response hook that writes an empty chunk for a body without events
StreamingResponseRecordsEmptyChunk(request_id, status_code, sse_events, latency_ms) ==
    (IF sse_events = <<>>
     THEN <<Chunk(request_id, 0, status_code, EmptyObj)>>
     ELSE [n \in 1..Len(sse_events) |->
              Chunk(request_id, n - 1, status_code, sse_events[n])])
    \o <<[type |-> "response_meta", request_id |-> request_id,
          status_code |-> status_code, total_latency_ms |-> latency_ms,
          total_chunks |-> Len(sse_events)]>>

\* what the response hook writes for a streaming response: one chunk record
\* per SSE event, chunk_index from 0, then the meta with the event count
StreamingResponseRecords(request_id, status_code, sse_events, latency_ms) ==
    [n \in 1..Len(sse_events) |->
        Chunk(request_id, n - 1, status_code, sse_events[n])]
    \o <<[type |-> "response_meta", request_id |-> request_id,
          status_code |-> status_code, total_latency_ms |-> latency_ms,
          total_chunks |-> Len(sse_events)]>>

(* Anthropic streaming payloads *)
TextDelta(idx, text) ==
    JObj([type |-> JStr(<<"content_block_delta">>), index |-> JInt(idx),
          delta |-> JObj([type |-> JStr(<<"text_delta">>), text |-> JStr(text)])])

ToolStart(idx, id, name) ==
    JObj([type |-> JStr(<<"content_block_start">>), index |-> JInt(idx),
          content_block |-> JObj([type |-> JStr(<<"tool_use">>),
                                  id |-> JStr(<<id>>), name |-> JStr(<<name>>)])])

ToolDelta(idx, fragment) ==
    JObj([type |-> JStr(<<"content_block_delta">>), index |-> JInt(idx),
          delta |-> JObj([type |-> JStr(<<"input_json_delta">>),
                          partial_json |-> JStr(fragment)])])

BlockStop(idx) ==
    JObj([type |-> JStr(<<"content_block_stop">>), index |-> JInt(idx)])

(* non-streaming bodies *)
AnthropicBody ==
    JObj([content |-> JList(<<
        JObj([type |-> JStr(<<"text">>), text |-> JStr(<<"c">>)]),
        JObj([type |-> JStr(<<"tool_use">>), id |-> JStr(<<"t9">>),
              name |-> JStr(<<"n9">>), input |-> JObj([path |-> JStr(<<"x">>)])])>>)])

\* the shapes of test_merger.py's body tests, and neighbours of them
ContentListBody ==
    JObj([content |-> JList(<<
        JObj([type |-> JStr(<<"text">>), text |-> JStr(<<"a">>)]),
        JObj([type |-> JStr(<<"tool_use">>), id |-> JStr(<<"t9">>),
              name |-> JStr(<<"n9">>), input |-> JNull]),
        JStr(<<"x">>),
        JObj([type |-> JStr(<<"text">>), text |-> JStr(<<"b">>)])>>)])

ContentStringBody == JObj([content |-> JStr(<<"c">>)])

Message(content) == JObj([message |-> JObj([content |-> content])])

ChoicesBody == JObj([choices |-> JList(<<Message(JStr(<<"d">>)), Message(JStr(<<"e">>))>>)])

NullContentChoicesBody ==
    JObj([content |-> JNull, choices |-> JList(<<Message(JStr(<<"f">>))>>)])

ContentAndChoicesBody ==
    JObj([content |-> JList(<<JObj([text |-> JStr(<<"g">>)])>>),
          choices |-> JList(<<Message(JStr(<<"h">>))>>)])

NoMessageContentBody ==
    JObj([choices |-> JList(<<EmptyObj, JObj([message |-> EmptyObj])>>)])

ErrorBody == JObj([error |-> JStr(<<"x">>)])

IntContentBody == JObj([content |-> JInt(5)])

(* bodies with tool calls: the shapes of TestExtractToolCallsFromBody *)
ToolUse(id, name, input) ==
    JObj([type |-> JStr(<<"tool_use">>), id |-> JStr(<<id>>), name |-> JStr(<<name>>),
          input |-> input])

FunctionCall(id, name, arguments) ==
    JObj([id |-> JStr(<<id>>),
          function |-> JObj([name |-> JStr(<<name>>), arguments |-> JStr(arguments)])])

ToolMessage(content, tcs) ==
    JObj([message |-> JObj([content |-> content, tool_calls |-> JList(tcs)])])

TwoToolUseBody ==
    JObj([content |-> JList(<<
        ToolUse("t1", "n1", JInt(1)),
        JObj([type |-> JStr(<<"text">>), text |-> JStr(<<"a">>)]),
        ToolUse("t2", "n2", JList(<<>>)),
        JObj([type |-> JStr(<<"tool_use">>)])>>)])

FunctionCallBody ==
    JObj([choices |-> JList(<<
        ToolMessage(JStr(<<"m">>), <<FunctionCall("c1", "f1", <<"[", "1", "]">>)>>)>>)])

NullContentCallBody ==
    JObj([choices |-> JList(<<
        ToolMessage(JNull, <<FunctionCall("c1", "f1", <<"[", "1", "]">>)>>)>>)])

TwoChoicesCallBody ==
    JObj([choices |-> JList(<<
        ToolMessage(JStr(<<"m">>),
                    <<FunctionCall("c1", "f1", <<"1">>), FunctionCall("c2", "f2", <<"[">>)>>),
        Message(JStr(<<"e">>)),
        ToolMessage(JStr(<<>>), <<JObj([id |-> JStr(<<"c3">>)])>>)>>)])

ContentAndCallsBody ==
    JObj([content |-> JList(<<ToolUse("t1", "n1", JNull)>>),
          choices |-> JList(<<
              ToolMessage(JStr(<<"m">>), <<FunctionCall("c1", "f1", <<"1">>)>>)>>)])

CallBodies ==
    {AnthropicBody, TwoToolUseBody, FunctionCallBody, NullContentCallBody,
     TwoChoicesCallBody, ContentAndCallsBody, ContentStringBody, ErrorBody}

(* payloads and bodies the extractors do not expect *)
NullMessageBody == JObj([choices |-> JList(<<Message(JNull)>>)])

NullItemTextBody == JObj([content |-> JList(<<JObj([text |-> JNull])>>)])

StringChoiceBody == JObj([choices |-> JList(<<JStr(<<"x">>)>>)])

NullText == JObj([delta |-> JObj([text |-> JNull])])

StringChoice == JObj([choices |-> JList(<<JStr(<<"x">>)>>)])

NullDelta == JObj([choices |-> JList(<<JObj([delta |-> JNull])>>)])

ToolStartNoIndex ==
    JObj([type |-> JStr(<<"content_block_start">>),
          content_block |-> JObj([type |-> JStr(<<"tool_use">>),
                                  id |-> JStr(<<"t0">>), name |-> JStr(<<"n0">>)])])

\* a request event that carries no id
RequestNoId == [type |-> "request"]

\* a request event with a timestamp
RequestAt(id, ts) == [type |-> "request", id |-> id, timestamp |-> ts]

\* the timestamps of test_merger.py's parse tests, and null
Timestamps ==
    {JStr(<<"2024-01-01T00:00:00">>), JStr(<<"2024-01-01T00:00:00", "Z">>),
     JStr(<<"x">>), JNull}

RequestIds == {"r1", "r2"}

BodyShapes ==
    {ContentListBody, ContentStringBody, ChoicesBody, NullContentChoicesBody,
     ContentAndChoicesBody, NoMessageContentBody, ErrorBody, IntContentBody,
     NullMessageBody, NullItemTextBody, StringChoiceBody}

(* text payloads: the shapes of test_merger.py's text tests, a payload   *)
(* with every marker, and payloads without any                           *)
DeltaTextPayload == JObj([delta |-> JObj([text |-> JStr(<<"a">>)])])

ChoiceDelta(content) == JObj([delta |-> JObj([content |-> content])])

TwoChoicesPayload ==
    JObj([choices |-> JList(<<ChoiceDelta(JStr(<<"b">>)), ChoiceDelta(JStr(<<"c">>))>>)])

RawTextPayload == JObj([text |-> JStr(<<"d">>)])

BlockTextPayload == JObj([content_block |-> JObj([text |-> JStr(<<"e">>)])])

AllMarkersPayload ==
    JObj([delta |-> JObj([text |-> JStr(<<"f">>)]),
          choices |-> JList(<<ChoiceDelta(JStr(<<"g">>))>>),
          text |-> JStr(<<"h">>),
          content_block |-> JObj([text |-> JStr(<<"i">>)])])

PlainStringPayload == JStr(<<"s">>)

StringDeltaPayload == JObj([delta |-> JStr(<<"t">>)])

NoDeltaChoicePayload == JObj([choices |-> JList(<<EmptyObj>>)])

\* a chunk record that carries no content
ChunkNoContent(id, idx, status) ==
    [type |-> "response_chunk", request_id |-> id, chunk_index |-> idx,
     status_code |-> status]

\* the chunks of a text exchange, each payload with a chunk_index of its own
TextChunks ==
    {Chunk("r1", 1, 200, DeltaTextPayload), Chunk("r1", 0, 200, TwoChoicesPayload),
     Chunk("r1", 1, 200, RawTextPayload), Chunk("r1", 0, 200, BlockTextPayload),
     Chunk("r1", 2, 200, AllMarkersPayload), Chunk("r1", 0, 200, PlainStringPayload),
     Chunk("r1", 0, 200, JNull), Chunk("r1", 1, 200, JInt(5)),
     Chunk("r1", 0, 200, JList(<<JStr(<<"x">>)>>)),
     Chunk("r1", 1, 200, ToolStart(0, "t1", "n1")),
     Chunk("r1", 0, 200, StringDeltaPayload), Chunk("r1", 1, 200, NoDeltaChoicePayload),
     ChunkNoContent("r1", 0, 200),
     Chunk("r1", 0, 200, NullText), Chunk("r1", 0, 200, StringChoice),
     Chunk("r1", 0, 200, NullDelta)}

\* a chunk record that carries no status_code
ChunkNoStatus(id, idx, content) ==
    [type |-> "response_chunk", request_id |-> id, chunk_index |-> idx,
     content |-> content]

\* the chunks and metas of one streamed exchange
StatusEvents ==
    {Chunk("r1", idx, status, TextDelta(0, <<"a">>)) : idx \in 0..1, status \in {200, 500}}
    \cup {ChunkNoStatus("r1", idx, TextDelta(0, <<"a">>)) : idx \in 0..1}
    \cup {Meta("r1", 201, 7), Meta("r1", 503, 9)}

\* the events of a log that is merged more than once
TwiceEvents ==
    {RequestAt("r1", ts) : ts \in Timestamps}
    \cup {Request("r1"), RequestAt("r2", JStr(<<"2024-01-02T00:00:00">>)),
          Chunk("r1", 0, 200, TextDelta(0, <<"a">>)),
          Response("r2", 404, JStr(<<"d">>), 3)}

\* the events of a log of odd shapes: r1 streams, r2 does not
BodyEvents ==
    {Chunk("r1", 0, 200, TextDelta(0, <<"a">>)), Chunk("r1", 0, 200, NullText),
     Chunk("r1", 0, 200, ToolStartNoIndex),
     Chunk("r1", 1, 200, ToolStart(0, "t1", "n1")), RequestNoId}
    \cup {Response("r2", 200, body, 5) : body \in BodyShapes}

\* the events of a mixed log: two exchanges, streamed or not
MergeEvents ==
    {Request(id) : id \in RequestIds}
    \cup {Chunk(id, 0, 200, TextDelta(0, <<"a">>)) : id \in RequestIds}
    \cup {Chunk(id, 1, 500, TextDelta(0, <<"b">>)) : id \in RequestIds}
    \cup {Meta(id, 201, 7) : id \in RequestIds}
    \cup {Response("r1", 200, AnthropicBody, 5), Response("r2", 404, JStr(<<"d">>), 3)}

\* the payloads of a tool-call exchange
ToolPayloads ==
    {ToolStart(0, "t1", "n1"), ToolStart(1, "t2", "n2"),
     ToolDelta(0, <<"[">>), ToolDelta(0, <<"]">>), ToolDelta(0, <<"1">>),
     ToolDelta(0, <<"[", "1">>), ToolDelta(0, <<>>),
     ToolDelta(1, <<"1">>), ToolDelta(1, <<"]">>),
     TextDelta(2, <<"a">>), BlockStop(0)}

\* the chunks of a reordered exchange: chunk_index as given, not arrival
ReorderChunks ==
    {Chunk("r1", idx, 200, TextDelta(0, <<"a">>)) : idx \in 0..2}
    \cup {Chunk("r1", idx, 500, TextDelta(0, <<"b">>)) : idx \in 0..2}
    \cup {Chunk("r1", idx, 200, ToolStart(0, "t1", "n1")) : idx \in 0..2}
    \cup {Chunk("r1", idx, 200, ToolDelta(0, <<"1">>)) : idx \in 0..2}

SeqsUpTo(S, n) == UNION {[1..m -> S] : m \in 0..n}

\* what the output sink holds before the pass: the record of an earlier one
PriorOutput ==
    <<[request_id |-> "r0",
       timestamp |-> [iso |-> <<"2024-01-01T00:00:00">>, clock |-> 0], method |-> <<>>, url |-> <<>>, request_body |-> JNull,
       response_status |-> 200, response_text |-> <<"o">>, tool_calls |-> <<>>,
       total_latency_ms |-> 0, chunk_count |-> 0]>>

---------------------------------------------------------------------------
(* The state machine of one merge pass. *)

\* the state at the call of merge(), for the input log recs
InitWith(inputs) ==
    /\ request_ids = NoFields /\ request_times = NoFields /\ flows = NoFields
    /\ records \in inputs
    /\ output = PriorOutput
    /\ pc = "start"
    /\ requests = NoGroups.requests
    /\ chunks = NoGroups.chunks
    /\ metas = NoGroups.metas
    /\ non_streaming = NoGroups.non_streaming
    /\ merged_records = <<>>
    /\ stats = InitStats(NoGroups)
    /\ rpos = 1
    /\ now = 1
    /\ returned = <<>>

Init == InitWith(SeqsUpTo(MergeEvents, MaxLen))

\* one request whose chunks carry the payloads in arrival order
ToolLog(payloads) ==
    <<Request("r1")>>
    \o [n \in 1..Len(payloads) |-> Chunk("r1", n - 1, 200, payloads[n])]

InitTools ==
    InitWith({ToolLog(payloads) : payloads \in SeqsUpTo(ToolPayloads, MaxChunks)})

InitReorder ==
    InitWith({<<Request("r1")>> \o cs : cs \in SeqsUpTo(ReorderChunks, MaxReorder)})

InitStatus ==
    InitWith({<<Request("r1")>> \o es : es \in SeqsUpTo(StatusEvents, MaxStatus)})

InitText ==
    InitWith({<<Request("r1")>> \o cs : cs \in SeqsUpTo(TextChunks, MaxText)})

InitCalls ==
    InitWith({<<Request("r2")>> \o [n \in 1..Len(bs) |-> Response("r2", 200, bs[n], 5)] :
                  bs \in SeqsUpTo(CallBodies, MaxCalls)})

InitSkip ==
    LET \* records whose type is none of the four: another type, no type,
        \* and a type that differs from "request" by a letter
        other == {[type |-> "ping", request_id |-> "r1"],
                  [request_id |-> "r1", status_code |-> 500, body |-> JStr(<<"z">>)],
                  [type |-> "requests", id |-> "r2"]}
        events == {Request("r1"), Chunk("r1", 0, 200, TextDelta(0, <<"a">>)),
                   Meta("r1", 201, 7), Response("r1", 404, JStr(<<"d">>), 3)}
                  \cup other
    IN InitWith(SeqsUpTo(events, MaxSkip))

\* a log that starts with a request of r1 and goes on with another request
\* of r1 (other method, url and body), a request of r2, their answers, and
\* answers to no request: of r3, of the empty request_id and of none
InitIds ==
    LET IdEvents ==
            {[type |-> "request", id |-> "r1", method |-> <<"POST">>,
              url |-> <<"u2">>, body |-> JStr(<<"q">>)],
             Request("r2"),
             Chunk("r1", 0, 200, TextDelta(0, <<"a">>)),
             Response("r2", 200, JStr(<<"c">>), 5),
             Chunk("r3", 0, 500, TextDelta(0, <<"b">>)),
             Meta("r3", 503, 9),
             Response("r3", 404, JStr(<<"d">>), 3),
             Chunk("", 0, 200, TextDelta(0, <<"b">>)),
             [type |-> "response", status_code |-> 200, body |-> JStr(<<"c">>),
              latency_ms |-> 5]}
    IN InitWith({<<[type |-> "request", id |-> "r1", method |-> <<"GET">>,
                    url |-> <<"u1">>, body |-> JNull]>> \o es :
                     es \in SeqsUpTo(IdEvents, MaxIds)})

\* the log of one captured streaming exchange: the request record, then
\* what the response hook writes for a body of up to MaxEvents SSE events
\* (a body without events included)
InitCapture ==
    LET Events == {TextDelta(0, <<"a">>), TextDelta(0, <<"b">>),
                   JObj([raw |-> JStr(<<"x">>)])}
    IN InitWith({<<Request("r1")>>
                     \o StreamingResponseRecords("r1", status_code, sse_events, 7) :
                 status_code \in {200, 500},
                 sse_events \in SeqsUpTo(Events, MaxEvents)})

\* one non-streamed exchange whose body is an object, a string, a number,
\* a list or null, or is absent
InitDispatch ==
    LET Bodies ==
            {ContentListBody, JStr(<<"d">>), JStr(<<>>), JInt(0), JInt(5),
             JList(<<>>), JList(<<JInt(1)>>), JNull}
        Responses ==
            {Response("r2", 200, body, 5) : body \in Bodies}
            \cup {Response("r2", 404, body, 3) : body \in Bodies}
            \cup {[type |-> "response", request_id |-> "r2", status_code |-> 500,
                   latency_ms |-> 1]}
    IN InitWith({<<Request("r2")>> \o es : es \in SeqsUpTo(Responses, MaxDispatch)})

\* r1 streams and r2 does not; their metas and responses come more than
\* once, with different status, latency and body
InitLast ==
    LET LastEvents ==
            {Chunk("r1", 0, 200, TextDelta(0, <<"a">>)),
             Meta("r1", 201, 7), Meta("r1", 503, 9),
             Response("r2", 200, JStr(<<"c">>), 5),
             Response("r2", 404, JStr(<<"d">>), 3)}
    IN InitWith({<<Request("r1"), Request("r2")>> \o es :
                     es \in SeqsUpTo(LastEvents, MaxLast)})

\* one exchange whose blocks are started again, or are text blocks: two
\* tool_use Starts of index 0 with different ids, one of index 1, the Start
\* of a text block, deltas of both kinds and a stop
InitBlocks ==
    LET TextStart ==
            JObj([type |-> JStr(<<"content_block_start">>), index |-> JInt(0),
                  content_block |-> JObj([type |-> JStr(<<"text">>),
                                          text |-> JStr(<<>>)])])
        BlockPayloads ==
            {ToolStart(0, "t1", "n1"), ToolStart(0, "t3", "n3"),
             ToolStart(1, "t2", "n2"), TextStart,
             ToolDelta(0, <<"[">>), ToolDelta(0, <<"1">>),
             TextDelta(0, <<"a">>), BlockStop(0)}
    IN InitWith({ToolLog(payloads) : payloads \in SeqsUpTo(BlockPayloads, MaxBlocks)})

InitBodies ==
    InitWith({<<Request("r1"), Request("r2")>> \o es : es \in SeqsUpTo(BodyEvents, MaxBodies)})

\* read_jsonl raises (the input is absent or unreadable): merge() is left
\* at its second statement
ReadFails ==
    /\ UNCHANGED proxy_vars
    /\ pc = "start"
    /\ pc' = "failed"
    /\ UNCHANGED <<records, output, requests, chunks, metas, non_streaming,
                   merged_records, stats, rpos, now, returned>>

\* read_jsonl, the grouping loop and the initial stats; an exception of the
\* loop leaves merge()
GroupRecords ==
    /\ UNCHANGED proxy_vars
    /\ pc = "start"
    /\ IF GroupRaises(records)
       THEN /\ pc' = "raised"
            /\ UNCHANGED <<requests, chunks, metas, non_streaming, stats,
                           merged_records, rpos>>
       ELSE /\ LET g == GroupScan(NoGroups, records)
               IN /\ requests' = g.requests
                  /\ chunks' = g.chunks
                  /\ metas' = g.metas
                  /\ non_streaming' = g.non_streaming
                  /\ stats' = InitStats(g)
            /\ merged_records' = <<>>
            /\ rpos' = 1
            /\ pc' = "merge"
    /\ UNCHANGED <<records, output, now, returned>>

\* an iteration that writes each record to the output as soon as it is built
ProcessRequestWritesThrough ==
    /\ UNCHANGED proxy_vars
    /\ pc = "merge"
    /\ rpos <= Len(requests.keys)
    /\ LET g == [requests |-> requests, chunks |-> chunks, metas |-> metas,
                 non_streaming |-> non_streaming]
       IN IF RequestRaises(g, requests.keys[rpos])
          THEN /\ pc' = "raised"
               /\ UNCHANGED <<merged_records, stats, rpos, output>>
          ELSE /\ LET m == MergeStep([merged_records |-> merged_records,
                                      stats |-> stats], g, requests.keys[rpos])
                  IN /\ merged_records' = m.merged_records
                     /\ stats' = m.stats
                     /\ output' = m.merged_records
               /\ rpos' = rpos + 1
               /\ pc' = pc
    /\ UNCHANGED <<records, requests, chunks, metas, non_streaming, now, returned>>

\* one iteration of the loop over requests.items(); an exception of an
\* extractor leaves merge()
ProcessRequest ==
    /\ UNCHANGED proxy_vars
    /\ pc = "merge"
    /\ rpos <= Len(requests.keys)
    /\ LET g == [requests |-> requests, chunks |-> chunks, metas |-> metas,
                 non_streaming |-> non_streaming]
       IN IF RequestRaises(g, requests.keys[rpos])
          THEN /\ pc' = "raised"
               /\ UNCHANGED <<merged_records, stats, rpos>>
          ELSE /\ LET m == MergeStep([merged_records |-> merged_records,
                                      stats |-> stats], g, requests.keys[rpos])
                  IN /\ merged_records' = m.merged_records
                     /\ stats' = m.stats
               /\ rpos' = rpos + 1
               /\ pc' = pc
    /\ UNCHANGED <<records, output, requests, chunks, metas, non_streaming, now,
                   returned>>

\* a writer opened for appending
WriteRecordsAppend ==
    /\ UNCHANGED proxy_vars
    /\ pc = "merge"
    /\ rpos > Len(requests.keys)
    /\ output' = output \o merged_records
    /\ pc' = "done"
    /\ returned' = Append(returned, [output |-> output', stats |-> stats])
    /\ UNCHANGED <<records, requests, chunks, metas, non_streaming,
                   merged_records, stats, rpos, now>>

\* the loop is over: the writer replaces the output, merge() returns stats
WriteRecords ==
    /\ UNCHANGED proxy_vars
    /\ pc = "merge"
    /\ rpos > Len(requests.keys)
    /\ output' = merged_records
    /\ pc' = "done"
    /\ returned' = Append(returned, [output |-> output', stats |-> stats])
    /\ UNCHANGED <<records, requests, chunks, metas, non_streaming,
                   merged_records, stats, rpos, now>>

\* merge() is called again on the same paths, later: its locals are made
\* anew by the call
Restart ==
    /\ UNCHANGED proxy_vars
    /\ pc \in {"done", "failed", "raised"}
    /\ now < MaxPasses
    /\ pc' = "start"
    /\ now' = now + 1
    /\ UNCHANGED <<records, output, requests, chunks, metas, non_streaming,
                   merged_records, stats, rpos, returned>>

Next == ReadFails \/ GroupRecords \/ ProcessRequest \/ WriteRecords

NextTwice == Next \/ Restart

Spec == Init /\ [][Next]_vars

SpecTools == InitTools /\ [][Next]_vars

SpecReorder == InitReorder /\ [][Next]_vars

SpecBodies == InitBodies /\ [][Next]_vars

SpecStatus == InitStatus /\ [][Next]_vars

SpecSkip == InitSkip /\ [][Next]_vars

SpecBlocks == InitBlocks /\ [][Next]_vars

SpecLast == InitLast /\ [][Next]_vars

SpecDispatch == InitDispatch /\ [][Next]_vars

SpecCapture == InitCapture /\ [][Next]_vars

SpecIds == InitIds /\ [][Next]_vars

SpecCalls == InitCalls /\ [][Next]_vars

SpecText == InitText /\ [][Next]_vars

\* an output sink that is empty or holds the record of an earlier pass
InitTwice ==
    /\ request_ids = NoFields /\ request_times = NoFields /\ flows = NoFields
    /\ records \in SeqsUpTo(TwiceEvents, MaxTwice)
    /\ output \in {<<>>, PriorOutput}
    /\ pc = "start"
    /\ requests = NoGroups.requests
    /\ chunks = NoGroups.chunks
    /\ metas = NoGroups.metas
    /\ non_streaming = NoGroups.non_streaming
    /\ merged_records = <<>>
    /\ stats = InitStats(NoGroups)
    /\ rpos = 1
    /\ now = 1
    /\ returned = <<>>

SpecTwice == InitTwice /\ [][NextTwice]_vars

\* merge() is sequential code: a statement that can run does run
FairSpecBodies == SpecBodies /\ WF_vars(Next)

---------------------------------------------------------------------------
(* What the input log says, read off the records themselves. *)

\* the ids that request events carry
RequestIdsIn(recs) ==
    {recs[n].id : n \in {i \in 1..Len(recs) : DGet(recs[i], "type", "") = "request"}}

\* positions of the records of one type that carry request_id id
PositionsOf(recs, type, id) ==
    {n \in 1..Len(recs) :
        DGet(recs[n], "type", "") = type /\ DGet(recs[n], "request_id", "") = id}

ChunksIn(recs, id) == Cardinality(PositionsOf(recs, "response_chunk", id))
HasChunkIn(recs, id) == PositionsOf(recs, "response_chunk", id) # {}
HasResponseIn(recs, id) == PositionsOf(recs, "response", id) # {}

StreamingIdsIn(recs) == {id \in RequestIdsIn(recs) : HasChunkIn(recs, id)}
NonStreamingIdsIn(recs) ==
    {id \in RequestIdsIn(recs) : ~HasChunkIn(recs, id) /\ HasResponseIn(recs, id)}
IncompleteIdsIn(recs) ==
    {id \in RequestIdsIn(recs) : ~HasChunkIn(recs, id) /\ ~HasResponseIn(recs, id)}

\* positions of the merged records that carry request_id id
RecordsOf(out, id) == {n \in 1..Len(out) : out[n].request_id = id}

RECURSIVE SumChunkCounts(_)
SumChunkCounts(out) ==
    IF out = <<>> THEN 0 ELSE Head(out).chunk_count + SumChunkCounts(Tail(out))

\* the ids the loop over requests.items() has visited so far
Visited == {requests.keys[n] : n \in 1..(rpos - 1)}

---------------------------------------------------------------------------
(* Claims about the statistics and the classification (Spec). *)

\* C1: when merge() returns, total_requests equals streaming_requests +
\* non_streaming_requests + incomplete_requests.
C1_StatsAddUp ==
    pc = "done" =>
        stats.total_requests =
            stats.streaming_requests + stats.non_streaming_requests
            + stats.incomplete_requests

\* a pass that returned with a streaming and an incomplete request, over a
\* log that repeats a request event
C1_Witness ==
    /\ pc = "done"
    /\ stats.streaming_requests = 1
    /\ stats.incomplete_requests = 1
    /\ Cardinality({n \in 1..Len(records) : records[n].type = "request"}) = 3

\* C2: every streaming record's chunk_count is the number of response_chunk
\* records of the input with its request_id, and total_chunks_processed is
\* the sum of chunk_count over the records written.
C2_ChunkCounts ==
    pc = "done" =>
        /\ \A n \in 1..Len(output) :
               HasChunkIn(records, output[n].request_id) =>
                   output[n].chunk_count = ChunksIn(records, output[n].request_id)
        /\ \A id \in StreamingIdsIn(records) : RecordsOf(output, id) # {}
        /\ stats.total_chunks_processed = SumChunkCounts(output)

\* a pass that wrote a streaming record of three chunks, two of them with
\* equal chunk_index
C2_Witness ==
    /\ pc = "done"
    /\ Len(output) = 1
    /\ stats.total_chunks_processed = 3
    /\ \E a, b \in PositionsOf(records, "response_chunk", "r1") :
           a # b /\ records[a].chunk_index = records[b].chunk_index

\* C3: a pass writes one record per request classified streaming or
\* non-streaming, and no two records carry the same request_id.
C3_OneRecordPerExchange ==
    pc = "done" =>
        /\ Len(output) = stats.streaming_requests + stats.non_streaming_requests
        /\ \A a, b \in 1..Len(output) :
               output[a].request_id = output[b].request_id => a = b

\* a pass over a log that repeats a request event and wrote its record
C3_Witness ==
    /\ pc = "done"
    /\ Len(output) = 1
    /\ \E a, b \in 1..Len(records) :
           /\ a # b
           /\ records[a].type = "request" /\ records[b].type = "request"
           /\ records[a].id = records[b].id
           /\ RecordsOf(output, records[a].id) # {}

\* the input without the non-streaming responses
WithoutResponses(recs) == SelectSeq(recs, LAMBDA r : DGet(r, "type", "") # "response")

\* C4: a request is streaming when its id has a chunk (a response with the
\* same id is then ignored), non-streaming when it has no chunk but a
\* response, incomplete otherwise; each is counted under its one rule.
C4_Classification ==
    pc = "done" =>
        /\ \A id \in StreamingIdsIn(records) :
               \E n \in 1..Len(output) :
                   /\ RecordsOf(output, id) = {n}
                   /\ output[n].chunk_count > 0
                   /\ \E m \in 1..Len(MergeResult(WithoutResponses(records)).merged_records) :
                          MergeResult(WithoutResponses(records)).merged_records[m] = output[n]
        /\ \A id \in NonStreamingIdsIn(records) :
               \E n \in 1..Len(output) :
                   /\ RecordsOf(output, id) = {n}
                   /\ output[n].chunk_count = 0
                   /\ \E p \in PositionsOf(records, "response", id) :
                          /\ output[n].response_status = records[p].status_code
                          /\ output[n].total_latency_ms = records[p].latency_ms
        /\ \A id \in IncompleteIdsIn(records) : RecordsOf(output, id) = {}
        /\ stats.streaming_requests = Cardinality(StreamingIdsIn(records))
        /\ stats.non_streaming_requests = Cardinality(NonStreamingIdsIn(records))
        /\ stats.incomplete_requests = Cardinality(IncompleteIdsIn(records))

\* a pass over a log in which one id has both a chunk and a response, and
\* the other id a response only
C4_Witness ==
    /\ pc = "done"
    /\ HasChunkIn(records, "r1") /\ HasResponseIn(records, "r1")
    /\ "r1" \in RequestIdsIn(records)
    /\ stats.streaming_requests = 1

\* C5: a request with neither chunk nor response adds no record and adds
\* exactly 1 to incomplete_requests; the pass goes on to the other requests,
\* writes their records and returns.
C5_IncompleteCounted ==
    pc \in {"merge", "done"} =>
        LET incomplete == IncompleteIdsIn(records)
        IN /\ \A id \in incomplete : RecordsOf(merged_records, id) = {}
           /\ stats.incomplete_requests = Cardinality(incomplete \cap Visited)
           /\ \A id \in Visited \ incomplete : RecordsOf(merged_records, id) # {}
           /\ pc = "done" =>
                  /\ Visited = RequestIdsIn(records)
                  /\ output = merged_records
           /\ (pc = "merge" /\ rpos > 1 /\ requests.keys[rpos - 1] \in incomplete)
                  => ENABLED Next

\* a pass that met the incomplete request first and still wrote the record
\* of the request after it
C5_Witness ==
    /\ pc = "done"
    /\ Len(requests.keys) = 2
    /\ requests.keys[1] \in IncompleteIdsIn(records)
    /\ RecordsOf(output, requests.keys[2]) # {}
    /\ stats.incomplete_requests = 1

---------------------------------------------------------------------------
(* Claims about the order of the input (SpecReorder, Spec). *)

\* the logs obtained by permuting the chunk records among their positions
ChunkPermutations(recs) ==
    LET P == {n \in 1..Len(recs) : DGet(recs[n], "type", "") = "response_chunk"}
    IN {[n \in 1..Len(recs) |-> IF n \in P THEN recs[f[n]] ELSE recs[n]] :
            f \in Permutations(P)}

\* the four fields of the merged record that the claim names
SameAnswer(a, b) ==
    /\ a.request_id = b.request_id
    /\ a.response_text = b.response_text
    /\ a.tool_calls = b.tool_calls
    /\ a.response_status = b.response_status
    /\ a.chunk_count = b.chunk_count

SameAnswers(out1, out2) ==
    /\ Len(out1) = Len(out2)
    /\ \A n \in 1..Len(out1) : SameAnswer(out1[n], out2[n])

\* no two chunks of one request carry the same chunk_index
DistinctChunkIndices(recs) ==
    \A a, b \in {n \in 1..Len(recs) : DGet(recs[n], "type", "") = "response_chunk"} :
        (a # b /\ recs[a].request_id = recs[b].request_id)
            => ChunkKey(recs[a]) # ChunkKey(recs[b])

\* C6 as stated: whatever the arrival order of the chunks, each keeping its
\* chunk_index, merge yields the same response_text, tool_calls,
\* response_status and chunk_count for every exchange.
C6_AnyChunkOrder ==
    pc = "done" =>
        \A recs2 \in ChunkPermutations(records) :
            SameAnswers(output, MergeResult(recs2).merged_records)

\* C6 amended: the same, for logs in which the chunks of each exchange carry
\* pairwise distinct chunk_index values.
C6_DistinctIndexOrder ==
    (pc = "done" /\ DistinctChunkIndices(records)) =>
        \A recs2 \in ChunkPermutations(records) :
            SameAnswers(output, MergeResult(recs2).merged_records)

\* a merged exchange of three chunks with distinct chunk_index that arrived
\* out of order and carry text and a tool call
C6_Witness ==
    /\ pc = "done"
    /\ DistinctChunkIndices(records)
    /\ Len(output) = 1
    /\ output[1].chunk_count = 3
    /\ output[1].response_text # <<>>
    /\ output[1].tool_calls # <<>>
    /\ \E a, b \in 2..Len(records) : a < b /\ ChunkKey(records[a]) > ChunkKey(records[b])

\* the request_id an event carries
EventId(r) == IF DGet(r, "type", "") = "request" THEN r.id ELSE DGet(r, "request_id", "")

EventsOf(recs, id) == SelectSeq(recs, LAMBDA r : EventId(r) = id)

\* the logs that interleave the same per-request_id event sequences
Interleavings(recs) ==
    {recs2 \in {[n \in 1..Len(recs) |-> recs[f[n]]] : f \in Permutations(1..Len(recs))} :
        \A id \in RequestIds : EventsOf(recs2, id) = EventsOf(recs, id)}

RecordSetOf(out, id) == {out[n] : n \in RecordsOf(out, id)}

\* C7: two logs that interleave the same per-request_id event sequences
\* give the same merged record for every request_id and the same statistics.
C7_InterleavingIndependent ==
    pc = "done" =>
        \A recs2 \in Interleavings(records) :
            LET r2 == MergeResult(recs2)
            IN /\ r2.stats = stats
               /\ \A id \in RequestIds :
                      RecordSetOf(r2.merged_records, id) = RecordSetOf(output, id)

\* a mixed batch, one streaming and one non-streaming exchange, whose events
\* can be interleaved in another way
C7_Witness ==
    /\ pc = "done"
    /\ Len(output) = 2
    /\ Cardinality({n \in 1..2 : output[n].chunk_count = 0}) = 1
    /\ output[1].response_text # output[2].response_text
    /\ Cardinality(Interleavings(records)) > 1

---------------------------------------------------------------------------
(* Claims about the tool-call assembly (SpecTools).  The chunk sequence of  *)
(* an exchange is read off the log: by chunk_index, then by arrival.        *)

ChunkPositions(recs, id) == PositionsOf(recs, "response_chunk", id)

ComesBefore(recs, a, b) ==
    \/ ChunkKey(recs[a]) < ChunkKey(recs[b])
    \/ ChunkKey(recs[a]) = ChunkKey(recs[b]) /\ a < b

OrderedChunks(recs, id) ==
    LET P == ChunkPositions(recs, id)
    IN [n \in 1..Cardinality(P) |->
           recs[CHOOSE a \in P : Cardinality({b \in P : ComesBefore(recs, b, a)}) = n - 1]]

IsToolStart(c, idx) ==
    /\ c.content.k = "obj"
    /\ JGet(c.content, "type", JNull) = JStr(<<"content_block_start">>)
    /\ JGet(c.content, "index", JNull) = JInt(idx)
    /\ JGet(JGet(c.content, "content_block", EmptyObj), "type", JNull) = JStr(<<"tool_use">>)

IsToolDelta(c, idx) ==
    /\ c.content.k = "obj"
    /\ JGet(c.content, "type", JNull) = JStr(<<"content_block_delta">>)
    /\ JGet(c.content, "index", JNull) = JInt(idx)
    /\ JGet(JGet(c.content, "delta", EmptyObj), "type", JNull) = JStr(<<"input_json_delta">>)

BlockIndices == 0..2

\* the content-block indices that have a tool_use Start
StartedIndices(cs) == {idx \in BlockIndices : \E n \in 1..Len(cs) : IsToolStart(cs[n], idx)}

\* position of the last Start of idx in cs
LastStart(cs, idx) ==
    CHOOSE n \in 1..Len(cs) :
        IsToolStart(cs[n], idx) /\ \A m \in (n + 1)..Len(cs) : ~IsToolStart(cs[m], idx)

\* the fragments delivered for idx, joined in chunk order
JoinedFragments(cs, idx) ==
    LET ds == SelectSeq(cs, LAMBDA c : IsToolDelta(c, idx))
    IN Concat([n \in 1..Len(ds) |-> ds[n].content.v.delta.v.partial_json.v])

\* the tool calls of the streaming record written for r1
ToolCallsWritten == output[1].tool_calls

\* C8: every index with a Start yields one invocation with the id and name
\* of its Start; its input is the parsed value when the joined fragments
\* parse, the joined string when they are non-empty and do not parse, null
\* when there is no fragment.
C8_Finalization ==
    (pc = "done" /\ Len(output) = 1) =>
        LET cs == OrderedChunks(records, "r1")
        IN /\ Len(ToolCallsWritten) = Cardinality(StartedIndices(cs))
           /\ \A idx \in StartedIndices(cs) :
                  \E n \in 1..Len(ToolCallsWritten) :
                      LET call == ToolCallsWritten[n]
                          block == cs[LastStart(cs, idx)].content.v.content_block
                          joined == JoinedFragments(cs, idx)
                      IN /\ call.id = block.v.id
                         /\ call.name = block.v.name
                         /\ joined = <<>> => call.input = JNull
                         /\ (joined # <<>> /\ JsonLoads(joined).ok)
                                => call.input = JsonLoads(joined).val
                         /\ (joined # <<>> /\ ~JsonLoads(joined).ok)
                                => call.input = JStr(joined)

\* an exchange with two invocations, one whose fragments parse and one whose
\* fragments do not
C8_Witness ==
    /\ pc = "done"
    /\ Len(output) = 1
    /\ Len(ToolCallsWritten) = 2
    /\ ToolCallsWritten[1].input = JInt(1)
    /\ ToolCallsWritten[2].input = JStr(<<"]">>)

\* idx has one Start and every delta of idx comes after it
DeltasFollowStart(cs, idx) ==
    /\ Cardinality({n \in 1..Len(cs) : IsToolStart(cs[n], idx)}) = 1
    /\ \A n \in 1..Len(cs) : IsToolDelta(cs[n], idx) => n > LastStart(cs, idx)

\* the input obtained when the Start of idx is followed by one delta that
\* carries the whole string
InputOfWhole(cs, idx) ==
    ExtractToolCallsFromChunks(
        <<cs[LastStart(cs, idx)],
          Chunk("r1", 1, 200, ToolDelta(idx, JoinedFragments(cs, idx)))>>)[1].input

\* C9: the input of an invocation whose deltas follow its Start is the input
\* obtained by delivering the joined string in a single delta.
C9_SplitIndependent ==
    (pc = "done" /\ Len(output) = 1) =>
        LET cs == OrderedChunks(records, "r1")
        IN \A idx \in StartedIndices(cs) :
               DeltasFollowStart(cs, idx) =>
                   \E n \in 1..Len(ToolCallsWritten) :
                       /\ ToolCallsWritten[n].id = cs[LastStart(cs, idx)].content.v.content_block.v.id
                       /\ ToolCallsWritten[n].input = InputOfWhole(cs, idx)

\* a string that parses as a whole, delivered in three fragments none of
\* which parses alone with the others missing
C9_Witness ==
    /\ pc = "done"
    /\ Len(output) = 1
    /\ LET cs == OrderedChunks(records, "r1")
       IN /\ DeltasFollowStart(cs, 0)
          /\ Cardinality({n \in 1..Len(cs) : IsToolDelta(cs[n], 0)}) = 3
          /\ JoinedFragments(cs, 0) = <<"[", "1", "]">>
    /\ ToolCallsWritten[1].input = JList(<<JInt(1)>>)

\* the content-block index whose Start carries this id
IndexOfId(cs, id) ==
    CHOOSE idx \in BlockIndices :
        \E n \in 1..Len(cs) : IsToolStart(cs[n], idx) /\ cs[n].content.v.content_block.v.id = id

\* C10: the invocations are written in ascending content-block index order,
\* whatever the order of their Starts in the chunk sequence.
C10_AscendingIndex ==
    (pc = "done" /\ Len(output) = 1) =>
        LET cs == OrderedChunks(records, "r1")
        IN \A a, b \in 1..Len(ToolCallsWritten) :
               a < b => IndexOfId(cs, ToolCallsWritten[a].id) < IndexOfId(cs, ToolCallsWritten[b].id)

\* two invocations whose Starts arrived in descending index order
C10_Witness ==
    /\ pc = "done"
    /\ Len(output) = 1
    /\ Len(ToolCallsWritten) = 2
    /\ LET cs == OrderedChunks(records, "r1")
       IN LastStart(cs, 1) < LastStart(cs, 0)

\* position of the first Start of idx in cs
FirstStart(cs, idx) ==
    CHOOSE n \in 1..Len(cs) :
        IsToolStart(cs[n], idx) /\ \A m \in 1..(n - 1) : ~IsToolStart(cs[m], idx)

\* the fragments of the deltas of idx that come after position from
FragmentsAfter(cs, idx, from) ==
    LET ds == SelectSeq([n \in 1..Len(cs) |-> [at |-> n, c |-> cs[n]]],
                        LAMBDA e : e.at > from /\ IsToolDelta(e.c, idx))
    IN Concat([n \in 1..Len(ds) |-> ds[n].c.content.v.delta.v.partial_json.v])

\* the input an invocation gets from the joined string of its fragments
FinalizedInput(joined) ==
    IF joined = <<>> THEN JNull
    ELSE IF JsonLoads(joined).ok THEN JsonLoads(joined).val
    ELSE JStr(joined)

\* C11: a delta whose index has had no Start earlier in the chunk sequence
\* is dropped: only the indices with a Start yield an invocation, and the
\* input of an invocation is made of the fragments that come after the first
\* Start of its index, also when deltas of that index came before it.
C11_EarlyDeltaDropped ==
    (pc = "done" /\ Len(output) = 1) =>
        LET cs == OrderedChunks(records, "r1")
        IN /\ Len(ToolCallsWritten) = Cardinality(StartedIndices(cs))
           /\ \A idx \in StartedIndices(cs) :
                  \E n \in 1..Len(ToolCallsWritten) :
                      /\ ToolCallsWritten[n].id
                             = cs[LastStart(cs, idx)].content.v.content_block.v.id
                      /\ ToolCallsWritten[n].input
                             = FinalizedInput(FragmentsAfter(cs, idx, FirstStart(cs, idx)))

---------------------------------------------------------------------------
(* Claims about errors (SpecBodies). *)

\* the grouping of the state
Groups ==
    [requests |-> requests, chunks |-> chunks, metas |-> metas,
     non_streaming |-> non_streaming]

\* the exchanges of the log that have a response and whose extraction
\* returns
SoundIds ==
    {id \in DOMAIN requests.val :
        Classify(Groups, id) # "incomplete" /\ ~RequestRaises(Groups, id)}

\* C12: an extraction error in one exchange does not abort the pass: when
\* the loop has met an exchange whose extraction raises, the pass still
\* goes on to write the records of the other exchanges.
C12_ErrorIsolated ==
    (pc \in {"merge", "raised"}
        /\ \E id \in DOMAIN requests.val : RequestRaises(Groups, id))
    ~> (pc = "done" /\ \A id \in SoundIds : RecordsOf(output, id) # {})

\* C13: the extractors never raise, whatever the payloads of the exchange.
C13_ExtractorsNeverRaise ==
    pc = "merge" => \A id \in DOMAIN requests.val : ~RequestRaises(Groups, id)

\* C14: a pass that has not reached its write phase, whether it is still
\* running, failed to read its input or was left by an exception, has left
\* the output sink exactly as it was.
C14_FailedPassKeepsOutput ==
    pc # "done" => output = PriorOutput

\* a pass left by an exception after it had built a record
C14_Witness ==
    /\ pc = "raised"
    /\ Len(merged_records) = 1
    /\ output = PriorOutput

---------------------------------------------------------------------------
(* Claims about repeated passes (SpecTwice). *)

\* every request event of the log carries a timestamp that parses
ParseableTimestamps(recs) ==
    \A n \in 1..Len(recs) :
        DGet(recs[n], "type", "") = "request" =>
            LET ts == DGet(recs[n], "timestamp", JNull)
            IN IsStr(ts) /\ RStripZ(ts.v) \in IsoStrings

\* C15: after merge() the output holds exactly the records of this pass,
\* whatever it held before; and on a log whose timestamps parse, every call
\* of merge() leaves the same output and returns the same stats.
C15_ReplacesOutput ==
    /\ pc = "done" =>
           /\ output = merged_records
           /\ \A n \in 1..Len(output) : output[n].request_id \in RequestIdsIn(records)
           /\ Len(output) = stats.streaming_requests + stats.non_streaming_requests
    /\ ParseableTimestamps(records) =>
           \A i, j \in 1..Len(returned) : returned[i] = returned[j]

\* a second pass over a log with a streamed exchange and an incomplete one
C15_Witness ==
    /\ pc = "done"
    /\ Len(returned) = 2
    /\ ParseableTimestamps(records)
    /\ Len(returned[1].output) = 1
    /\ returned[1].stats.incomplete_requests = 1
    /\ output = returned[1].output

---------------------------------------------------------------------------
(* Claims about the records written (Spec). *)

\* position of the first request event of id in the log
FirstRequest(recs, id) ==
    LET P == {n \in 1..Len(recs) :
                 DGet(recs[n], "type", "") = "request" /\ EventId(recs[n]) = id}
    IN CHOOSE n \in P : \A m \in P : n <= m

\* position of the first chunk, meta or response of id in the log
FirstAnswer(recs, id) ==
    LET P == {n \in 1..Len(recs) :
                 DGet(recs[n], "type", "") # "request" /\ EventId(recs[n]) = id}
    IN CHOOSE n \in P : \A m \in P : n <= m

\* C16: the records are written in the order in which their request_ids
\* first appear on request events, whatever the order in which the chunks,
\* metas and responses arrive.
C16_RequestOrder ==
    pc = "done" =>
        \A a, b \in 1..Len(output) :
            a < b => FirstRequest(records, output[a].request_id)
                         < FirstRequest(records, output[b].request_id)

\* two records whose answers arrived in the other order than their requests
C16_Witness ==
    /\ pc = "done"
    /\ Len(output) = 2
    /\ FirstAnswer(records, output[2].request_id)
           < FirstAnswer(records, output[1].request_id)

\* C17: in every record written, chunk_count is 0 exactly when the record
\* was built from a non-streaming response (the log holds no chunk of its
\* exchange) and positive exactly when it was built from chunks.
C17_ChunkCountSignals ==
    pc = "done" =>
        \A n \in 1..Len(output) :
            /\ output[n].chunk_count = 0
                   <=> output[n].request_id \in NonStreamingIdsIn(records)
            /\ output[n].chunk_count > 0
                   <=> output[n].request_id \in StreamingIdsIn(records)

\* a streamed record of one chunk beside a record built from a response
C17_Witness ==
    /\ pc = "done"
    /\ Len(output) = 2
    /\ \E a, b \in 1..2 : output[a].chunk_count = 1 /\ output[b].chunk_count = 0

---------------------------------------------------------------------------
(* Claims about the status of a streamed exchange (SpecStatus). *)

\* position of the last meta of id in the log
LastMeta(recs, id) ==
    CHOOSE n \in PositionsOf(recs, "response_meta", id) :
        \A m \in PositionsOf(recs, "response_meta", id) : m <= n

\* C18: the record of a streamed exchange is written with or without a
\* meta.  Its response_status is the meta's status when there is a meta,
\* else the status of the first chunk in chunk_index order, else 0; its
\* total_latency_ms is the meta's value when there is one, else 0.
C18_StatusAndLatency ==
    pc = "done" =>
        \A id \in StreamingIdsIn(records) :
            /\ Cardinality(RecordsOf(output, id)) = 1
            /\ LET written == output[CHOOSE n \in RecordsOf(output, id) : TRUE]
                   first == OrderedChunks(records, id)[1]
               IN IF PositionsOf(records, "response_meta", id) # {}
                  THEN LET meta == records[LastMeta(records, id)]
                       IN /\ written.response_status = meta.status_code
                          /\ written.total_latency_ms = meta.total_latency_ms
                  ELSE /\ written.total_latency_ms = 0
                       /\ written.response_status =
                              IF "status_code" \in DOMAIN first
                              THEN first.status_code ELSE 0

\* an exchange without meta whose first chunk by chunk_index arrived last
\* and carries another status than the chunk that arrived first
C18_Witness ==
    /\ pc = "done"
    /\ Len(output) = 1
    /\ PositionsOf(records, "response_meta", "r1") = {}
    /\ Len(records) = 3
    /\ ChunkKey(records[3]) < ChunkKey(records[2])
    /\ output[1].response_status = 500
    /\ DGet(records[2], "status_code", 0) = 200

---------------------------------------------------------------------------
(* Claims about the text of a streamed exchange (SpecText). *)

\* what the spec's rule gives for each payload of TextChunks: delta.text,
\* then each choice's delta content, then text, then content_block.text;
\* a string as it is; nothing for the rest
Contribution(chunk) ==
    LET p == DGet(chunk, "content", JNull)
    IN CASE p = DeltaTextPayload -> <<"a">>
         [] p = TwoChoicesPayload -> <<"b", "c">>
         [] p = RawTextPayload -> <<"d">>
         [] p = BlockTextPayload -> <<"e">>
         [] p = AllMarkersPayload -> <<"f", "g", "h", "i">>
         [] p = PlainStringPayload -> <<"s">>
         [] OTHER -> <<>>

\* C19: the response_text of a streamed exchange is the concatenation, over
\* its chunks in chunk_index order, of each chunk's contributions in the
\* order delta.text, choices' delta contents, text, content_block.text; a
\* string payload is appended as it is, any other payload adds nothing.
C19_TextConcatenation ==
    (pc = "done" /\ Len(output) = 1) =>
        LET cs == OrderedChunks(records, "r1")
        IN output[1].response_text = Concat([n \in 1..Len(cs) |-> Contribution(cs[n])])

\* the payload with every marker, sorted behind two chunks that arrived
\* after it
C19_Witness ==
    /\ pc = "done"
    /\ Len(output) = 1
    /\ output[1].response_text = <<"b", "c", "a", "f", "g", "h", "i">>
    /\ Len(records) = 4
    /\ DGet(records[2], "content", JNull) = AllMarkersPayload

---------------------------------------------------------------------------
(* Claims about the text of a non-streaming body (SpecBodies). *)

\* what the spec's rule gives for each body of BodyShapes whose texts are
\* strings: the texts of a content list, a content string, else the message
\* contents of the choices, else the body's JSON serialization
BodyText(body) ==
    CASE body = ContentListBody -> <<"a", "b">>
      [] body = ContentStringBody -> <<"c">>
      [] body = ChoicesBody -> <<"d", "e">>
      [] body = NullContentChoicesBody -> <<"f">>
      [] body = ContentAndChoicesBody -> <<"g">>
      [] body = NoMessageContentBody -> <<>>
      [] body = ErrorBody -> <<"{", "\"", "error", "\"", ":", " ", "\"", "x", "\"", "}">>
      [] body = IntContentBody -> <<"{", "\"", "content", "\"", ":", " ", "5", "}">>

\* position of the last response of id in the log
LastResponse(recs, id) ==
    CHOOSE n \in PositionsOf(recs, "response", id) :
        \A m \in PositionsOf(recs, "response", id) : m <= n

\* C20: the response_text of an exchange with an object body is the
\* concatenation of the texts of body.content when that is a list, the
\* content when it is a string, else the concatenation of the choices'
\* message contents when there are choices, else the JSON serialization of
\* the body.
C20_BodyText ==
    pc = "done" =>
        \A n \in 1..Len(output) :
            output[n].request_id = "r2" =>
                output[n].response_text
                    = BodyText(records[LastResponse(records, "r2")].body)

\* a body with neither shape, written as its JSON serialization
C20_Witness ==
    /\ pc = "done"
    /\ \E n \in 1..Len(output) :
           /\ output[n].request_id = "r2"
           /\ output[n].response_text
                  = <<"{", "\"", "error", "\"", ":", " ", "\"", "x", "\"", "}">>

---------------------------------------------------------------------------
(* Claims about the tool calls of a non-streaming body (SpecCalls). *)

Call(id, name, input) == [id |-> JStr(id), name |-> JStr(name), input |-> input]

\* what the spec's rule gives for each body of CallBodies: the tool_use
\* entries of the content list with their input as it is, then the
\* tool_calls entries of every choice's message with the function name and
\* the arguments string
BodyCalls(body) ==
    CASE body = AnthropicBody ->
             <<Call(<<"t9">>, <<"n9">>, JObj([path |-> JStr(<<"x">>)]))>>
      [] body = TwoToolUseBody ->
             <<Call(<<"t1">>, <<"n1">>, JInt(1)), Call(<<"t2">>, <<"n2">>, JList(<<>>)),
               Call(<<>>, <<>>, JNull)>>
      [] body = FunctionCallBody -> <<Call(<<"c1">>, <<"f1">>, JStr(<<"[", "1", "]">>))>>
      [] body = NullContentCallBody -> <<Call(<<"c1">>, <<"f1">>, JStr(<<"[", "1", "]">>))>>
      [] body = TwoChoicesCallBody ->
             <<Call(<<"c1">>, <<"f1">>, JStr(<<"1">>)), Call(<<"c2">>, <<"f2">>, JStr(<<"[">>)),
               Call(<<"c3">>, <<>>, JNull)>>
      [] body = ContentAndCallsBody ->
             <<Call(<<"t1">>, <<"n1">>, JNull), Call(<<"c1">>, <<"f1">>, JStr(<<"1">>))>>
      [] body = ContentStringBody -> <<>>
      [] body = ErrorBody -> <<>>

\* C21: the tool calls of an object body are one invocation per tool_use
\* entry of its content, input as it is, then one per tool_calls entry of
\* every choice's message, with the function's name and its arguments string
\* unparsed, in the order of the body; a body without such an entry gives
\* none.  The record written carries them.
C21_BodyToolCalls ==
    (pc # "start" /\ "r2" \in DOMAIN non_streaming) =>
        LET body == non_streaming["r2"].body
        IN /\ ~ToolCallsFromBodyRaises(body)
           /\ ExtractToolCallsFromBody(body) = BodyCalls(body)
           /\ (pc = "done" /\ output # <<>>) => output[1].tool_calls = BodyCalls(body)

\* a record written with the calls of two choices, arguments unparsed
C21_Witness ==
    /\ pc = "done"
    /\ Len(output) = 1
    /\ Len(output[1].tool_calls) = 3
    /\ output[1].tool_calls[1].input = JStr(<<"1">>)

---------------------------------------------------------------------------
(* Claims about records of other types (SpecSkip). *)

KnownTypes == {"request", "response_chunk", "response_meta", "response"}

\* the log without its records of other types
KnownRecords(recs) == SelectSeq(recs, LAMBDA r : DGet(r, "type", "") \in KnownTypes)

\* C22: records whose type is none of request, response_chunk,
\* response_meta and response are skipped: the pass writes the records and
\* returns the stats of the log without them.
C22_OtherTypesSkipped ==
    pc = "done" =>
        LET without == MergeResult(KnownRecords(records))
        IN /\ output = without.merged_records
           /\ stats = without.stats

\* a streamed exchange with records of other types between its events
C22_Witness ==
    /\ pc = "done"
    /\ Len(output) = 1
    /\ Len(records) = 4
    /\ DGet(records[1], "type", "") = "request"
    /\ DGet(records[2], "type", "") \notin KnownTypes
    /\ DGet(records[3], "type", "") = "response_chunk"
    /\ DGet(records[4], "type", "") \notin KnownTypes

---------------------------------------------------------------------------
(* RecordSplitter: the lines of a merged file are JSON values. *)

\* _format_timestamp_for_filename: the string without trailing Z and
\* without "+00:00" parsed by fromisoformat and written by strftime; the
\* current time where the value is no string or does not parse
FormatTimestampForFilename(timestamp) ==
    LET ts == IF IsStr(timestamp)
              THEN SelectSeq(RStripZ(timestamp.v), LAMBDA t : t # "+00:00")
              ELSE <<>>
    IN CASE ts = <<"2024-01-01T00:00:00">> -> <<"2024-01-01_00-00-00">>
         [] ts = <<"2024-01-02T00:00:00">> -> <<"2024-01-02_00-00-00">>
         [] OTHER -> <<"now", now>>

\* _generate_filename: f"{index:03d}_{ts_str}.txt"
GenerateFilename(index, record) ==
    [seq |-> index,
     ts |-> FormatTimestampForFilename(JGet(record, "timestamp", JStr(<<>>)))]

\* _format_record for a request body and a response text that are null or
\* a string and tool inputs that are null or a string: the lines of the
\* sections, joined by "\n"
FormatRecord(record) ==
    LET SEPARATOR == <<"=">>
        Unescape(text) ==
            [n \in 1..Len(text) |->
                IF text[n] = "\\n" THEN "\n"
                ELSE IF text[n] = "\\t" THEN "\t" ELSE text[n]]
        request_body == JGet(record, "request_body", JNull)
        response_text == JGet(record, "response_text", JStr(<<>>))
        tool_calls == JGet(record, "tool_calls", JList(<<>>))
        CallLines(i) ==
            LET tool_input == JGet(tool_calls.v[i], "input", JNull)
            IN <<<<"[">> \o NatDigits(i) \o <<"] ">>
                     \o JGet(tool_calls.v[i], "name", JStr(<<>>)).v,
                 <<"    ID: ">> \o JGet(tool_calls.v[i], "id", JStr(<<>>)).v>>
               \o (IF Truthy(tool_input)
                   THEN <<<<"    Input: ">> \o tool_input.v>> ELSE <<>>)
               \o << <<>> >>
        lines ==
            <<SEPARATOR, <<"REQUEST">>, SEPARATOR, <<>>,
              IF request_body = JNull THEN <<"[No request body]">>
              ELSE Unescape(request_body.v),
              <<>>, SEPARATOR, <<"RESPONSE">>, SEPARATOR, <<>>,
              IF response_text = JNull THEN <<"[No response]">>
              ELSE Unescape(response_text.v)>>
            \o (IF Truthy(tool_calls)
                THEN <<<<>>, SEPARATOR, <<"TOOL CALLS">>, SEPARATOR, <<>>>>
                     \o Concat([i \in 1..Len(tool_calls.v) |-> CallLines(i)])
                ELSE <<>>)
    IN Concat([n \in 1..Len(lines) |->
                  IF n = 1 THEN lines[n] ELSE <<"\n">> \o lines[n]])

\* what makes _generate_filename or _format_record raise: record.get on a
\* line that is no dict; enumerate over, or tool_call.get on an entry of, a
\* truthy tool_calls that is no list of dicts
FormatRaises(record) ==
    \/ ~IsDict(record)
    \/ LET tool_calls == JGet(record, "tool_calls", JList(<<>>))
       IN /\ Truthy(tool_calls)
          /\ \/ tool_calls.k # "list"
             \/ \E n \in 1..Len(tool_calls.v) : ~IsDict(tool_calls.v[n])

\* a line of a merged file
MergedLine(timestamp, response_text, tool_calls) ==
    JObj([request_id |-> JStr(<<"r1">>), timestamp |-> timestamp,
          request_body |-> JNull, response_text |-> response_text,
          tool_calls |-> tool_calls])

\* lines given to the splitter: two records as merge() writes them, one
\* with an escaped newline and an invocation; a record without fields; a
\* line that is a list; records whose tool_calls is a number, or a list
\* with a string in it
SplitLines ==
    {MergedLine(JStr(<<"2024-01-01T00:00:00", "Z">>), JStr(<<"a", "\\n">>),
                JList(<<JObj([id |-> JStr(<<"t1">>), name |-> JStr(<<"n1">>),
                              input |-> JStr(<<"[">>)])>>)),
     MergedLine(JStr(<<"2024-01-02T00:00:00", "+00:00">>), JNull, JList(<<>>)),
     EmptyObj,
     JList(<<JInt(1)>>),
     MergedLine(JStr(<<"x">>), JStr(<<"b">>), JInt(1)),
     MergedLine(JNull, JStr(<<"c">>), JList(<<JStr(<<"t1">>)>>))}

InitSplit ==
    /\ request_ids = NoFields /\ request_times = NoFields /\ flows = NoFields
    /\ records \in SeqsUpTo(SplitLines, MaxSplit)
    /\ output = NoFields
    /\ pc = "split_start"
    /\ requests = NoGroups.requests
    /\ chunks = NoGroups.chunks
    /\ metas = NoGroups.metas
    /\ non_streaming = NoGroups.non_streaming
    /\ merged_records = <<>>
    /\ stats = NoFields
    /\ rpos = 1
    /\ now = 1
    /\ returned = <<>>

\* read_jsonl or mkdir raises: split() is left before its loop
SplitFails ==
    /\ UNCHANGED proxy_vars
    /\ pc = "split_start"
    /\ pc' = "split_failed"
    /\ UNCHANGED <<records, output, requests, chunks, metas, non_streaming,
                   merged_records, stats, rpos, now, returned>>

\* the records are read, the directory made and the stats set up
SplitStart ==
    /\ UNCHANGED proxy_vars
    /\ pc = "split_start"
    /\ pc' = "split"
    /\ stats' = [total_records |-> Len(records), files_created |-> 0, errors |-> 0]
    /\ rpos' = 1
    /\ UNCHANGED <<records, output, requests, chunks, metas, non_streaming,
                   merged_records, now, returned>>

\* a loop body that counts the file before it is written
SplitRecordCountsFirst ==
    /\ UNCHANGED proxy_vars
    /\ pc = "split"
    /\ rpos <= Len(records)
    /\ \E written \in BOOLEAN :
          LET record == records[rpos]
          IN IF FormatRaises(record) \/ ~written
             THEN /\ stats' = [stats EXCEPT !.files_created = @ + 1, !.errors = @ + 1]
                  /\ UNCHANGED output
             ELSE /\ output' = (GenerateFilename(rpos, record) :> FormatRecord(record))
                                   @@ output
                  /\ stats' = [stats EXCEPT !.files_created = @ + 1]
    /\ rpos' = rpos + 1
    /\ UNCHANGED <<records, pc, requests, chunks, metas, non_streaming,
                   merged_records, now, returned>>

\* One pass of the loop body: the file of the record is written and
\* counted, or an exception of the naming, the formatting or write_text is
\* caught and counted.
SplitRecord ==
    /\ UNCHANGED proxy_vars
    /\ pc = "split"
    /\ rpos <= Len(records)
    /\ \E written \in BOOLEAN :
          LET record == records[rpos]
          IN IF FormatRaises(record) \/ ~written
             THEN /\ stats' = [stats EXCEPT !.errors = @ + 1]
                  /\ UNCHANGED output
             ELSE /\ output' = (GenerateFilename(rpos, record) :> FormatRecord(record))
                                   @@ output
                  /\ stats' = [stats EXCEPT !.files_created = @ + 1]
    /\ rpos' = rpos + 1
    /\ UNCHANGED <<records, pc, requests, chunks, metas, non_streaming,
                   merged_records, now, returned>>

\* the loop is over: split() returns its stats
SplitReturn ==
    /\ UNCHANGED proxy_vars
    /\ pc = "split"
    /\ rpos > Len(records)
    /\ pc' = "split_done"
    /\ returned' = Append(returned, [stats |-> stats])
    /\ UNCHANGED <<records, output, requests, chunks, metas, non_streaming,
                   merged_records, stats, rpos, now>>

NextSplit == SplitFails \/ SplitStart \/ SplitRecord \/ SplitReturn

SpecSplit == InitSplit /\ [][NextSplit]_vars

---------------------------------------------------------------------------
(* Claims about RecordSplitter.split (SpecSplit). *)

\* the positions, among the first n, of the records whose file is in the
\* directory
FilesOf(n) == {i \in 1..n : \E name \in DOMAIN output : name.seq = i}

\* C23: in split() every record either gets its file and is counted in
\* files_created, or raises and is counted in errors, and the records
\* after it are still processed: after each pass of the loop the two
\* counters add up to the number of records processed, files_created is the
\* number of files in the directory, and on return total_records ==
\* files_created + errors.
C23_BadRecordCounted ==
    /\ pc \in {"split", "split_done"} =>
          /\ stats.files_created + stats.errors = rpos - 1
          /\ stats.files_created = Cardinality(FilesOf(rpos - 1))
          /\ \A i \in 1..(rpos - 1) : FormatRaises(records[i]) => i \notin FilesOf(rpos - 1)
          /\ stats.total_records = Len(records)
    /\ pc = "split_done" =>
          /\ rpos = Len(records) + 1
          /\ stats.total_records = stats.files_created + stats.errors
          /\ returned = <<[stats |-> stats]>>

\* a bad record between two good ones: one error, two files
C23_Witness ==
    /\ pc = "split_done"
    /\ Len(records) = 3
    /\ FormatRaises(records[2])
    /\ stats.errors = 1
    /\ FilesOf(3) = {1, 3}

---------------------------------------------------------------------------
(* Claims about restarted and text blocks (SpecBlocks). *)

\* the indices that have two tool_use Starts or more
RestartedIndices(cs) ==
    {idx \in StartedIndices(cs) : FirstStart(cs, idx) # LastStart(cs, idx)}

\* C24: a tool_use Start registers its invocation with an empty fragment
\* buffer: an index with a second Start yields one invocation, which has the
\* id and name of the later Start and an input made only of the fragments
\* that follow the later Start.
C24_LaterStartResets ==
    (pc = "done" /\ Len(output) = 1) =>
        LET cs == OrderedChunks(records, "r1")
        IN \A idx \in RestartedIndices(cs) :
               LET block == cs[LastStart(cs, idx)].content.v.content_block
                   calls == {n \in 1..Len(ToolCallsWritten) :
                                ToolCallsWritten[n].id = block.v.id}
               IN /\ Cardinality(calls) = 1
                  /\ \A n \in calls :
                        /\ ToolCallsWritten[n].name = block.v.name
                        /\ ToolCallsWritten[n].input
                               = FinalizedInput(FragmentsAfter(cs, idx, LastStart(cs, idx)))

\* a content_block_start of any block type
IsStart(c) ==
    /\ c.content.k = "obj"
    /\ JGet(c.content, "type", JNull) = JStr(<<"content_block_start">>)

\* C28: a streaming exchange has as many invocations as distinct indices
\* with a tool_use Start: the Starts of other block types, the text deltas
\* and the stop events register nothing (the chunks without them give the
\* same number), and without a tool_use Start tool_calls is empty.
C28_InvocationCount ==
    (pc = "done" /\ Len(output) = 1) =>
        LET cs == OrderedChunks(records, "r1")
            starts == SelectSeq(cs, LAMBDA c : \E idx \in BlockIndices : IsToolStart(c, idx))
        IN /\ Len(ToolCallsWritten) = Cardinality(StartedIndices(cs))
           /\ Len(ToolCallsWritten) = Len(ExtractToolCallsFromChunks(starts))
           /\ starts = <<>> => ToolCallsWritten = <<>>

\* an exchange with the Start of a text block, a stop and two tool_use
\* Starts of one index: one invocation
C28_Witness ==
    /\ pc = "done"
    /\ Len(output) = 1
    /\ Len(ToolCallsWritten) = 1
    /\ LET cs == OrderedChunks(records, "r1")
       IN /\ Len(cs) = 4
          /\ \E n \in 1..4 : IsStart(cs[n]) /\ \A idx \in BlockIndices : ~IsToolStart(cs[n], idx)
          /\ \E n \in 1..4 : cs[n].content = BlockStop(0)
          /\ Cardinality({n \in 1..4 : IsToolStart(cs[n], 0)}) = 2

---------------------------------------------------------------------------
(* Claims about the order of consumption (SpecReorder). *)

\* the text of the text deltas of cs, in the order of cs
DeltaTexts(cs) ==
    Concat([n \in 1..Len(cs) |->
               JGet(JGet(cs[n].content, "delta", EmptyObj), "text", JStr(<<>>)).v])

---------------------------------------------------------------------------
(* Claims about repeated metas and responses (SpecLast). *)

\* C26: of several metas, or several non-streaming responses, of one
\* request_id only the last in the log determines the record: the streamed
\* record has the status and latency of the last meta, the non-streamed one
\* the status, latency and body of the last response; each exchange has one
\* record and is counted once.
C26_LastOneWins ==
    pc = "done" =>
        /\ \A n \in 1..Len(output) :
              /\ RecordsOf(output, output[n].request_id) = {n}
              /\ (output[n].request_id = "r1"
                    /\ PositionsOf(records, "response_meta", "r1") # {}) =>
                    LET meta == records[LastMeta(records, "r1")]
                    IN /\ output[n].response_status = meta.status_code
                       /\ output[n].total_latency_ms = meta.total_latency_ms
              /\ output[n].request_id = "r2" =>
                    LET response == records[LastResponse(records, "r2")]
                    IN /\ output[n].response_status = response.status_code
                       /\ output[n].total_latency_ms = response.latency_ms
                       /\ output[n].response_text = response.body.v
        /\ stats.streaming_requests = IF HasChunkIn(records, "r1") THEN 1 ELSE 0
        /\ stats.non_streaming_requests = IF HasResponseIn(records, "r2") THEN 1 ELSE 0
        /\ stats.total_requests = 2

\* both exchanges written from a log with two different metas of r1 and two
\* different responses of r2
C26_Witness ==
    /\ pc = "done"
    /\ Len(output) = 2
    /\ Cardinality({records[p] : p \in PositionsOf(records, "response_meta", "r1")}) = 2
    /\ Cardinality({records[p] : p \in PositionsOf(records, "response", "r2")}) = 2

---------------------------------------------------------------------------
(* Claims about the dispatch on the body (SpecDispatch). *)

\* C27: the body of a non-streamed exchange is dispatched by type: an
\* object goes through the vendor extraction of text and tool calls, a
\* string is the text as it is with no tool calls, any other body (number,
\* list, null) gives its JSON serialization as the text with no tool calls;
\* status and latency are those of the response record.
C27_BodyDispatch ==
    (pc = "done" /\ Len(output) = 1) =>
        LET response == records[LastResponse(records, "r2")]
            body == DGet(response, "body", JNull)
        IN /\ output[1].response_status = response.status_code
           /\ output[1].total_latency_ms = response.latency_ms
           /\ output[1].chunk_count = 0
           /\ IF IsDict(body)
              THEN /\ output[1].response_text = ExtractTextFromBody(body)
                   /\ output[1].tool_calls = ExtractToolCallsFromBody(body)
              ELSE /\ output[1].tool_calls = <<>>
                   /\ output[1].response_text
                          = IF IsStr(body) THEN body.v ELSE JsonDumps(body)

---------------------------------------------------------------------------
(* Claims about requests without a usable timestamp (SpecTwice). *)

\* the log with a timestamp that parses on every request event
WithValidTimestamps(recs) ==
    [n \in 1..Len(recs) |->
        IF DGet(recs[n], "type", "") = "request"
        THEN RequestAt(recs[n].id, JStr(<<"2024-01-02T00:00:00">>))
        ELSE recs[n]]

\* the timestamp of the last request event of id in the log
LastTimestamp(recs, id) ==
    LET P == {n \in 1..Len(recs) :
                 DGet(recs[n], "type", "") = "request" /\ EventId(recs[n]) = id}
    IN DGet(recs[CHOOSE n \in P : \A m \in P : m <= n], "timestamp", JNull)

\* C29: a request whose timestamp is missing or does not parse is merged
\* all the same: the pass writes the records and returns the stats of the
\* same log with valid timestamps, but for the timestamp field, which is
\* the time of the pass where the request's timestamp is no string that
\* parses.
C29_TimestampFallback ==
    pc = "done" =>
        LET valid == MergeResult(WithValidTimestamps(records))
        IN /\ stats = valid.stats
           /\ Len(output) = Len(valid.merged_records)
           /\ \A n \in 1..Len(output) :
                 LET ts == LastTimestamp(records, output[n].request_id)
                 IN /\ [output[n] EXCEPT !.timestamp = valid.merged_records[n].timestamp]
                        = valid.merged_records[n]
                    /\ output[n].timestamp =
                           IF IsStr(ts) /\ RStripZ(ts.v) \in IsoStrings
                           THEN [iso |-> RStripZ(ts.v), clock |-> 0]
                           ELSE [iso |-> <<>>, clock |-> now]

\* a streamed exchange merged from a request that has no timestamp
C29_Witness ==
    /\ pc = "done"
    /\ Len(output) = 1
    /\ output[1].chunk_count = 1
    /\ output[1].timestamp = [iso |-> <<>>, clock |-> now]
    /\ Len(records) = 2
    /\ "timestamp" \notin DOMAIN records[1]

---------------------------------------------------------------------------
(* Claims about a captured streaming response (SpecCapture). *)

\* C30: a request with a meta but no chunk and no non-streaming response is
\* incomplete and gets no record; so the streaming response that the proxy
\* captured with no SSE event, of which it wrote only the meta with
\* total_chunks 0, is reported as one incomplete request, while one with
\* events is merged from its chunks.
C30_MetaOnlyIncomplete ==
    pc = "done" =>
        LET meta == records[Len(records)]
        IN /\ meta.type = "response_meta"
           /\ IF meta.total_chunks = 0
              THEN /\ ~HasChunkIn(records, "r1") /\ ~HasResponseIn(records, "r1")
                   /\ output = <<>>
                   /\ stats = [total_requests |-> 1, streaming_requests |-> 0,
                               non_streaming_requests |-> 0, incomplete_requests |-> 1,
                               total_chunks_processed |-> 0]
              ELSE /\ Len(output) = 1
                   /\ output[1].chunk_count = meta.total_chunks
                   /\ stats.incomplete_requests = 0

\* the pass over the log of a streaming response without events
C30_Witness ==
    /\ pc = "done"
    /\ Len(records) = 2
    /\ records[2].type = "response_meta"
    /\ records[2].total_chunks = 0
    /\ stats.incomplete_requests = 1

---------------------------------------------------------------------------
(* Claims about request ids (SpecIds). *)

\* a chunk, meta or response whose request_id is that of no request event
\* of the log, or is empty or missing
IsOrphan(recs, r) ==
    /\ DGet(r, "type", "") \in {"response_chunk", "response_meta", "response"}
    /\ DGet(r, "request_id", "") \notin RequestIdsIn(recs)

\* C31: chunks, metas and responses whose request_id is that of no request
\* event, or is empty or missing, give no record and count in no statistic:
\* the pass writes and returns what it does for the log without them, no
\* record carries their id, and total_chunks_processed counts the chunks of
\* requests only.
C31_OrphansIgnored ==
    pc = "done" =>
        LET without == MergeResult(SelectSeq(records, LAMBDA r : ~IsOrphan(records, r)))
        IN /\ output = without.merged_records
           /\ stats = without.stats
           /\ \A n \in 1..Len(output) : output[n].request_id \in RequestIdsIn(records)
           /\ stats.total_chunks_processed =
                  Cardinality({n \in 1..Len(records) :
                                  /\ DGet(records[n], "type", "") = "response_chunk"
                                  /\ ~IsOrphan(records, records[n])})
           /\ stats.total_requests = Cardinality(RequestIdsIn(records))

\* a streamed exchange of r1 in a log that also holds a chunk of r3, a chunk
\* with empty request_id and a response without request_id
C31_Witness ==
    /\ pc = "done"
    /\ Len(output) = 1
    /\ output[1].chunk_count = 1
    /\ Len(records) = 5
    /\ \E n \in 2..5 : records[n] = Chunk("r3", 0, 500, TextDelta(0, <<"b">>))
    /\ \E n \in 2..5 : records[n] = Chunk("", 0, 200, TextDelta(0, <<"b">>))
    /\ \E n \in 2..5 : "request_id" \notin DOMAIN records[n]

\* position of the last request event of id in the log
LastRequest(recs, id) ==
    LET P == {n \in 1..Len(recs) :
                 DGet(recs[n], "type", "") = "request" /\ EventId(recs[n]) = id}
    IN CHOOSE n \in P : \A m \in P : m <= n

\* C32: an id with several request events is counted once in
\* total_requests and has at most one record, which stands where the first
\* occurrence of the id puts it among the records and carries the method,
\* url and body of the last occurrence.
C32_RepeatedRequest ==
    pc = "done" =>
        /\ stats.total_requests = Cardinality(RequestIdsIn(records))
        /\ \A id \in RequestIdsIn(records) : Cardinality(RecordsOf(output, id)) <= 1
        /\ \A a, b \in 1..Len(output) :
               a < b => FirstRequest(records, output[a].request_id)
                            < FirstRequest(records, output[b].request_id)
        /\ \A n \in 1..Len(output) :
               LET last == records[LastRequest(records, output[n].request_id)]
               IN /\ output[n].method = DGet(last, "method", <<>>)
                  /\ output[n].url = DGet(last, "url", <<>>)
                  /\ output[n].request_body = DGet(last, "body", JNull)

\* r1 is requested, then r2, then r1 again: the record of r1 comes first
\* and carries the POST of the second request
C32_Witness ==
    /\ pc = "done"
    /\ Len(records) = 5
    /\ records[2] = Request("r2")
    /\ DGet(records[3], "type", "") = "request" /\ records[3].id = "r1"
    /\ Len(output) = 2
    /\ output[1].request_id = "r1"
    /\ output[1].method = <<"POST">>
    /\ output[1].request_body = JStr(<<"q">>)

---------------------------------------------------------------------------
(* CCIAddon: the request and response hooks of the proxy.  mitmproxy calls  *)
(* the hooks of its addons one at a time, and the request hook of a flow    *)
(* before its response hook; the flows in flight are distinct objects, so   *)
(* id(flow) tells them apart.  The log written is records.                  *)

\* a filter that selects every URL
ShouldCaptureAll(flow_id) == TRUE

\* url_filter.should_capture(url) for the URL of a flow
ShouldCapture(flow_id) == flows[flow_id].capture

\* str(uuid4()): an id that was never given out
NewUuid ==
    CHOOSE u \in {"r1", "r2", "r3", "r4", "r5", "r6"} :
        /\ \A n \in 1..Len(records) :
               DGet(records[n], "id", "") # u /\ DGet(records[n], "request_id", "") # u
        /\ \A f \in DOMAIN request_ids : request_ids[f] # u

\* a response hook that makes up an id of its own
ResponseRequestIdFresh(flow_id) == NewUuid

\* self._request_ids.get(flow_id, str(uuid4()))
ResponseRequestId(flow_id) == DGet(request_ids, flow_id, NewUuid)

\* a cleanup that removes nothing
CleanupFlowKeeps(tracked, flow_id) == tracked

\* _cleanup_flow on one of the two maps: pop(flow_id, None)
CleanupFlow(tracked, flow_id) ==
    [f \in DOMAIN tracked \ {flow_id} |-> tracked[f]]

\* The request hook: nothing for a URL the filter does not select; else a
\* new request_id and the time are kept under the flow and the request
\* record is written.
RequestHook(flow_id) ==
    /\ pc = "proxy"
    /\ flows[flow_id].pos = "new"
    /\ flows' = [flows EXCEPT ![flow_id].pos = "requested"]
    /\ now' = now + 1
    /\ IF ~ShouldCapture(flow_id)
       THEN UNCHANGED <<records, request_ids, request_times>>
       ELSE LET request_id == NewUuid
            IN /\ request_ids' = (flow_id :> request_id) @@ request_ids
               /\ request_times' = (flow_id :> now) @@ request_times
               /\ records' = Append(records, Request(request_id))
    /\ UNCHANGED <<output, pc, requests, chunks, metas, non_streaming,
                   merged_records, stats, rpos, returned>>

\* The response hook: nothing for a URL the filter does not select; else
\* the chunk records and the meta of a text/event-stream response, or the
\* one record of any other response, are written under the request_id kept
\* for the flow, and the flow is removed from both maps.  (The SSE events
\* are those of _parse_sse_body, which only the streaming branch calls.)
ResponseHook(flow_id) ==
    /\ pc = "proxy"
    /\ flows[flow_id].pos = "requested"
    /\ flows' = [flows EXCEPT ![flow_id].pos = "responded"]
    /\ now' = now + 1
    /\ IF ~ShouldCapture(flow_id)
       THEN UNCHANGED <<records, request_ids, request_times>>
       ELSE \E is_streaming \in BOOLEAN, status_code \in {200, 500},
               sse_events \in SeqsUpTo({TextDelta(0, <<"a">>)}, MaxSse) :
               LET request_id == ResponseRequestId(flow_id)
                   start_time == DGet(request_times, flow_id, now)
                   latency_ms == (now - start_time) * 1000
               IN /\ records' =
                         IF is_streaming
                         THEN records \o StreamingResponseRecords(
                                             request_id, status_code, sse_events, latency_ms)
                         ELSE Append(records, Response(request_id, status_code,
                                                       JStr(<<"d">>), latency_ms))
                  /\ is_streaming \/ sse_events = <<>>
                  /\ request_ids' = CleanupFlow(request_ids, flow_id)
                  /\ request_times' = CleanupFlow(request_times, flow_id)
    /\ UNCHANGED <<output, pc, requests, chunks, metas, non_streaming,
                   merged_records, stats, rpos, returned>>

\* the addon after construction: both maps empty, nothing written; the
\* flows to come, each selected by the URL filter or not
InitProxy ==
    /\ records = <<>>
    /\ request_ids = NoFields
    /\ request_times = NoFields
    /\ flows \in [1..MaxFlows -> [pos : {"new"}, capture : BOOLEAN]]
    /\ pc = "proxy"
    /\ output = <<>>
    /\ requests = NoGroups.requests
    /\ chunks = NoGroups.chunks
    /\ metas = NoGroups.metas
    /\ non_streaming = NoGroups.non_streaming
    /\ merged_records = <<>>
    /\ stats = InitStats(NoGroups)
    /\ rpos = 1
    /\ now = 1
    /\ returned = <<>>

NextProxy == \E flow_id \in 1..MaxFlows : RequestHook(flow_id) \/ ResponseHook(flow_id)

SpecProxy == InitProxy /\ [][NextProxy]_vars

---------------------------------------------------------------------------
(* Claims about the proxy (SpecProxy). *)

\* positions of the chunk, meta and response records that carry id
AnswersOf(id) ==
    {n \in 1..Len(records) :
        DGet(records[n], "type", "") # "request" /\ DGet(records[n], "request_id", "") = id}

\* positions of the request records that carry id
RequestsOf(id) ==
    {n \in 1..Len(records) : DGet(records[n], "type", "") = "request" /\ records[n].id = id}

\* the flows whose hooks the filter lets through and that have come to pos
CapturedAt(pos) == {f \in DOMAIN flows : flows[f].capture /\ flows[f].pos = pos}

\* C33: however the hooks of the flows in flight interleave, every chunk,
\* meta and response record carries the request_id of one request record,
\* which stands before it in the log; the request records carry distinct
\* ids, one per captured flow whose request hook has run, and the id kept
\* for a flow in flight is that of a request record without answer.
C33_AnswersFollowRequest ==
    /\ \A n \in 1..Len(records) :
           DGet(records[n], "type", "") # "request" =>
               \E m \in 1..(n - 1) :
                   /\ DGet(records[m], "type", "") = "request"
                   /\ records[m].id = records[n].request_id
    /\ \A n, m \in 1..Len(records) :
           (DGet(records[n], "type", "") = "request"
                /\ DGet(records[m], "type", "") = "request"
                /\ records[n].id = records[m].id) => n = m
    /\ Cardinality({n \in 1..Len(records) : DGet(records[n], "type", "") = "request"})
           = Cardinality(CapturedAt("requested") \cup CapturedAt("responded"))
    /\ \A f \in DOMAIN request_ids :
           /\ RequestsOf(request_ids[f]) # {}
           /\ AnswersOf(request_ids[f]) = {}
    /\ \A f, g \in DOMAIN request_ids : request_ids[f] = request_ids[g] => f = g

\* two flows in flight together whose responses came in the other order
\* than their requests
C33_Witness ==
    /\ Len(records) >= 4
    /\ DGet(records[1], "type", "") = "request"
    /\ DGet(records[2], "type", "") = "request"
    /\ DGet(records[3], "request_id", "") = records[2].id
    /\ DGet(records[Len(records)], "request_id", "") = records[1].id
    /\ CapturedAt("responded") = {1, 2}

\* the records of the log at the positions P, in log order
LogAt(P) ==
    [n \in 1..Cardinality(P) |->
        records[CHOOSE a \in P : Cardinality({b \in P : b < a}) = n - 1]]

\* the answers form what one streaming response gives: chunks numbered
\* from 0 in order, then one meta that counts them
IsStreamingGroup(answers) ==
    /\ answers # <<>>
    /\ \A n \in 1..(Len(answers) - 1) :
           answers[n].type = "response_chunk" /\ answers[n].chunk_index = n - 1
    /\ answers[Len(answers)].type = "response_meta"
    /\ answers[Len(answers)].total_chunks = Len(answers) - 1

\* C34: for each response handled exactly one of two things is in the log
\* under its request_id: the chunk records of its n SSE events, with
\* chunk_index 0..n-1 in order, followed by one meta with total_chunks n;
\* or one non-streaming response record; never records of both kinds, and
\* nothing for a flow whose response has not come.
C34_OneKindPerResponse ==
    /\ \A m \in 1..Len(records) :
           DGet(records[m], "type", "") = "request" =>
               LET answers == LogAt(AnswersOf(records[m].id))
               IN \/ answers = <<>>
                  \/ IsStreamingGroup(answers)
                  \/ Len(answers) = 1 /\ answers[1].type = "response"
    /\ Cardinality({records[m].id : m \in {n \in 1..Len(records) :
                       /\ DGet(records[n], "type", "") = "request"
                       /\ AnswersOf(records[n].id) # {}}})
           = Cardinality(CapturedAt("responded"))

\* a streaming response of two events and a non-streaming one, both handled
C34_Witness ==
    /\ CapturedAt("responded") = {1, 2}
    /\ \E n \in 1..Len(records) :
           DGet(records[n], "type", "") = "response_meta" /\ records[n].total_chunks = 2
    /\ \E n \in 1..Len(records) : DGet(records[n], "type", "") = "response"

\* C35: the two in-flight maps always have the same keys, the captured
\* flows whose request hook has run and whose response hook has not: the
\* response hook removes its flow from both, and both are empty once every
\* captured flow has had its response handled.
C35_MapsInStep ==
    /\ DOMAIN request_ids = DOMAIN request_times
    /\ DOMAIN request_ids = CapturedAt("requested")
    /\ (\A f \in DOMAIN flows : flows[f].capture => flows[f].pos = "responded") =>
           request_ids = NoFields /\ request_times = NoFields

\* one captured flow is in flight after the response of another was handled
C35_Witness ==
    /\ Cardinality(CapturedAt("responded")) = 1
    /\ Cardinality(DOMAIN request_ids) = 1
    /\ DOMAIN request_times = CapturedAt("requested")

\* C36: the hooks of a flow whose URL the filter does not select write no
\* record and leave both in-flight maps as they are.
C36_UnselectedUntouched ==
    [][(\E f \in DOMAIN flows : ~flows[f].capture /\ flows'[f] # flows[f])
           => UNCHANGED <<records, request_ids, request_times>>]_vars

\* both hooks of an unselected flow have run while a captured flow was in
\* flight: the log holds the one request record
C36_Witness ==
    /\ \E f \in DOMAIN flows : ~flows[f].capture /\ flows[f].pos = "responded"
    /\ Cardinality(CapturedAt("requested")) = 1
    /\ Len(records) = 1
    /\ Cardinality(DOMAIN request_ids) = 1

\* The split command of the CLI (cli.py): it calls split_records and reads
\* four keys of the stats for its table.  A key that the stats lack raises
\* KeyError, which the command catches with every other exception: it
\* prints the error and exits with 1, as it does when the input cannot be
\* read.  When every key is there it prints the table and returns (exit 0).
SplitCommand ==
    LET keys_read == {"total_records", "request_files", "response_files", "errors"}
    IN /\ UNCHANGED proxy_vars
       /\ pc \in {"split_done", "split_failed"}
       /\ pc' = IF /\ pc = "split_done"
                   /\ keys_read \subseteq DOMAIN returned[Len(returned)].stats
                THEN "exit_0"
                ELSE "exit_1"
       /\ UNCHANGED <<records, output, requests, chunks, metas, non_streaming,
                      merged_records, stats, rpos, now, returned>>

NextCli == NextSplit \/ SplitCommand

SpecCli == InitSplit /\ [][NextCli]_vars

\* C37: every statistics key the split command reads is a key of the
\* statistics split_records returns, so a split in which split_records
\* succeeds (it returned its stats) does not end in the error exit.
C37_SplitReportsSuccess ==
    /\ returned # <<>> =>
           {"total_records", "request_files", "response_files", "errors"}
               \subseteq DOMAIN returned[Len(returned)].stats
    /\ pc = "exit_1" => returned = <<>>

====
